---- MODULE Spec2Model ----
(***************************************************************************)
(* Verification model of the gdrive-rag front end: the transport adapter   *)
(* (services/api.ts), the QueryClient defaults (App.tsx), the mutation     *)
(* hooks (hooks/useApi.ts) and the view-state controllers (MainApp,        *)
(* ChatPanel, Sidebar).                                                    *)
(***************************************************************************)
EXTENDS Integers, Sequences, FiniteSets, TLC

VARIABLES
    rr,     \* one run of ApiService.retryRequest
    qf,     \* one fetch/mutate executed by the QueryClient's retryer
    app,    \* MainApp: its useState cells and the last search request it issued
    chat,   \* ChatPanel: its props, useState cells and mutations in flight
    sb,     \* Sidebar: its useState cells, loads, mutations and timers in flight
    cache,  \* the QueryClient's cache entries
    qc,     \* query cache entries created by the useQuery call sites
    sp,     \* SearchPage: its useState cells, its two search queries and the result list
    rl,     \* a ResultsList fed by useInfiniteSearch
    http,   \* the axios instance: local storage, requests in flight, the last settled call
    rq,     \* one fetch of a useRetryableQuery query
    conv,   \* the conversationHistory entries of the QueryClient cache
    sn,     \* SnippetPreview: its useState cells and its snippet queries
    ft,     \* Sidebar: the folder list received and the forest built from it
    db      \* SearchBar: query, debouncedQuery, isComposing and the debounce timer

vars == <<rr, qf, app, chat, sb, cache, qc, sp, rl, http, rq, conv, sn, ft, db>>

\* what the actions of one component leave alone
notRetry == <<qf, app, chat, sb, cache, qc, sp, rl, http, rq, conv, sn, ft, db>>
notQuery == <<rr, app, chat, sb, cache, qc, sp, rl, http, rq, conv, sn, ft, db>>
notApp == <<rr, qf, chat, sb, cache, qc, sp, rl, http, rq, conv, sn, ft, db>>
notChat == <<rr, qf, app, sb, cache, qc, sp, rl, http, rq, conv, sn, ft, db>>
notSidebar == <<rr, qf, chat, qc, sp, rl, http, rq, conv, sn, ft, db>>
notKeys == <<rr, qf, app, chat, sb, cache, sp, rl, http, rq, conv, sn, ft, db>>
notSearch == <<rr, qf, app, chat, sb, cache, qc, rl, http, rq, conv, sn, ft, db>>
notResults == <<rr, qf, app, chat, sb, cache, qc, sp, http, rq, conv, sn, ft, db>>
notHttp == <<rr, qf, app, chat, sb, cache, qc, sp, rl, rq, conv, sn, ft, db>>
notRetryable == <<rr, qf, app, chat, sb, cache, qc, sp, rl, http, conv, sn, ft, db>>
notConversation == <<rr, qf, app, chat, sb, cache, qc, sp, rl, http, rq, sn, ft, db>>
notSnippets == <<rr, qf, app, chat, sb, cache, qc, sp, rl, http, rq, conv, ft, db>>
notFolderTree == <<rr, qf, app, chat, sb, cache, qc, sp, rl, http, rq, conv, sn, db>>
notDebounce == <<rr, qf, app, chat, sb, cache, qc, sp, rl, http, rq, conv, sn, ft>>

(***************************************************************************)
(* Bounds                                                                  *)
(***************************************************************************)
MaxRetriesBound == 6    \* largest maxRetries passed to retryRequest
MaxTextLen == 2         \* longest text typed into an input
MaxSends == 2           \* chat messages sent in one ChatPanel session
MaxLoads == 2           \* folder document loads issued by the Sidebar
MaxMutations == 2       \* indexing mutations started
MaxSearches == 3        \* submissions of the search bar on the search screen
MaxPageLoads == 3       \* fetches started by one infinite search
MaxRequests == 3        \* HTTP requests issued through the axios instance
MaxQueryRetries == 3    \* largest maxRetries passed to useRetryableQuery
MaxHistoryOps == 3      \* addMessage and clearHistory calls of the conversation sessions
MaxSnippets == 2        \* snippets in one answer of a snippet query
MaxSnippetFetches == 3   \* fetches started by the snippet queries of the preview
MaxFolders == 3         \* folders in one answer of GET /folders

(***************************************************************************)
(* Strings whose characters the code inspects are sequences of characters. *)
(***************************************************************************)
ERR_BAD_REQUEST == <<"E","R","R","_","B","A","D","_","R","E","Q","U","E","S","T">>
ERR_BAD_RESPONSE == <<"E","R","R","_","B","A","D","_","R","E","S","P","O","N","S","E">>
ECONNABORTED == <<"E","C","O","N","N","A","B","O","R","T","E","D">>
ERR_NETWORK == <<"E","R","R","_","N","E","T","W","O","R","K">>
UNKNOWN_ERROR == <<"U","N","K","N","O","W","N","_","E","R","R","O","R">>

\* String.prototype.startsWith
startsWith(s, prefix) ==
    /\ Len(s) >= Len(prefix)
    /\ SubSeq(s, 1, Len(prefix)) = prefix

Min(a, b) == IF a <= b THEN a ELSE b

RECURSIVE pow(_, _)
\* Math.pow for natural exponents
pow(b, e) == IF e = 0 THEN 1 ELSE b * pow(b, e - 1)

(***************************************************************************)
(* What one HTTP call can end in: a 2xx response, an HTTP error status, the*)
(* 30 s timeout of the axios instance, or no response at all.              *)
(***************************************************************************)
Statuses == {400, 401, 403, 404, 500, 503}

Outcomes ==
    {[kind |-> "ok", status |-> 200]}
        \cup {[kind |-> "http", status |-> s] : s \in Statuses}
        \cup {[kind |-> "timeout", status |-> 0], [kind |-> "network", status |-> 0]}

\* no call has settled yet
NoOutcome == [kind |-> "none", status |-> 0]

Failures == {o \in Outcomes : o.kind # "ok"}

IsClientFailure(o) == o.kind = "http" /\ o.status >= 400 /\ o.status <= 499

IsRetryableFailure(o) ==
    \/ o.kind \in {"timeout", "network"}
    \/ o.kind = "http" /\ o.status >= 500

\* The AxiosError the axios instance rejects with before the response
\* interceptor runs.  `coded` is FALSE for an error object that carries no
\* `code` (axios sets it for timeouts and network failures always, for HTTP
\* status failures only in its newer releases).
AxiosError(o, coded) ==
    IF o.kind = "http"
    THEN LET base == [message |-> <<"Request failed with status code", o.status>>,
                      response |-> [status |-> o.status, data |-> <<"body", o.status>>]]
         IN  IF coded
             THEN base @@ [code |-> IF o.status < 500 THEN ERR_BAD_REQUEST
                                                    ELSE ERR_BAD_RESPONSE]
             ELSE base
    ELSE IF o.kind = "timeout"
    THEN [message |-> <<"timeout of 30000ms exceeded", 0>>, code |-> ECONNABORTED]
    ELSE [message |-> <<"Network Error", 0>>, code |-> ERR_NETWORK]

\* error.response?.status, with 0 standing for undefined (every comparison
\* of undefined with a number is false, as it is for 0 against 400 and 500).
ResponseStatus(error) ==
    IF "response" \in DOMAIN error THEN error.response.status ELSE 0

\* mutant: the 403 branch is missing
NormalizeError_NoForbidden(error) ==
    LET status == ResponseStatus(error)
        apiError == [message |-> IF error.message # <<"", 0>> THEN error.message
                                 ELSE <<"An unexpected error occurred", 0>>,
                     code |-> IF "code" \in DOMAIN error THEN error.code
                                                         ELSE UNKNOWN_ERROR,
                     details |-> IF "response" \in DOMAIN error
                                 THEN error.response.data ELSE <<>>]
    IN  IF status = 401
        THEN [apiError EXCEPT !.message = <<"Authentication required", 0>>]
        ELSE IF status = 404
        THEN [apiError EXCEPT !.message = <<"Resource not found", 0>>]
        ELSE IF status >= 500
        THEN [apiError EXCEPT !.message = <<"Server error. Please try again later.", 0>>]
        ELSE apiError

\* The response interceptor's rejection handler.  A message is a pair of its
\* text and the status the text quotes; the empty message is <<"", 0>>.
NormalizeError(error) ==
    LET status == ResponseStatus(error)
        apiError == [message |-> IF error.message # <<"", 0>> THEN error.message
                                 ELSE <<"An unexpected error occurred", 0>>,
                     code |-> IF "code" \in DOMAIN error THEN error.code
                                                         ELSE UNKNOWN_ERROR,
                     details |-> IF "response" \in DOMAIN error
                                 THEN error.response.data ELSE <<>>]
    IN  IF status = 401
        THEN [apiError EXCEPT !.message = <<"Authentication required", 0>>]
        ELSE IF status = 403
        THEN [apiError EXCEPT !.message = <<"Access forbidden", 0>>]
        ELSE IF status = 404
        THEN [apiError EXCEPT !.message = <<"Resource not found", 0>>]
        ELSE IF status >= 500
        THEN [apiError EXCEPT !.message = <<"Server error. Please try again later.", 0>>]
        ELSE apiError

\* What a request function built on apiService rejects with.
ApiRejections(o) ==
    {NormalizeError(AxiosError(o, coded)) :
        coded \in (IF o.kind = "http" THEN BOOLEAN ELSE {TRUE})}

NoError == [message |-> <<"", 0>>, code |-> <<>>, details |-> <<>>]

(***************************************************************************)
(* ApiService.retryRequest                                                 *)
(***************************************************************************)
\* if (lastError.code && lastError.code.startsWith('4'))
isClientErrorCode(error) ==
    /\ Len(error.code) > 0
    /\ startsWith(error.code, <<"4">>)

\* Math.pow(2, attempt) * 1000
backoffDelay(attempt) == pow(2, attempt) * 1000

\* mutant: the loop stops one attempt early
loopContinues_OffByOne(attempt, maxRetries) == attempt < maxRetries

\* for (let attempt = 1; attempt <= maxRetries; attempt++)
loopContinues(attempt, maxRetries) == attempt <= maxRetries

RetryIdle ==
    [pc |-> "idle", maxRetries |-> 0, attempt |-> 0, calls |-> 0,
     waits |-> <<>>, first |-> NoOutcome, last |-> NoOutcome,
     onlyRetryable |-> TRUE, lastError |-> NoError]

\* retryRequest(requestFn, maxRetries) is called; the loop is entered.
retryRequest(maxRetries) ==
    /\ rr.pc = "idle"
    /\ rr' = [rr EXCEPT !.maxRetries = maxRetries,
                        !.attempt = 1,
                        !.pc = IF loopContinues(1, maxRetries) THEN "call" ELSE "thrown"]
    /\ UNCHANGED notRetry

\* `await requestFn()` settles: the try returns, or the catch block runs.
requestFnSettles(o, error) ==
    /\ rr.pc = "call"
    /\ LET called == [rr EXCEPT !.calls = @ + 1,
                                !.first = IF rr.calls = 0 THEN o ELSE @,
                                !.last = o,
                                !.onlyRetryable = @ /\ IsRetryableFailure(o)]
       IN  IF o.kind = "ok"
           THEN rr' = [called EXCEPT !.pc = "returned"]
           ELSE LET caught == [called EXCEPT !.lastError = error]
                IN  IF isClientErrorCode(error)
                    THEN rr' = [caught EXCEPT !.pc = "thrown"]
                    ELSE IF rr.attempt < rr.maxRetries
                    THEN rr' = [caught EXCEPT !.pc = "wait",
                                              !.waits = Append(@, backoffDelay(rr.attempt))]
                    ELSE rr' = [caught EXCEPT
                                  !.attempt = @ + 1,
                                  !.pc = IF loopContinues(rr.attempt + 1, rr.maxRetries)
                                         THEN "call" ELSE "thrown"]
    /\ UNCHANGED notRetry

\* The backoff timer fires: attempt++ and the loop condition is tested.
backoffElapsed ==
    /\ rr.pc = "wait"
    /\ rr' = [rr EXCEPT !.attempt = @ + 1,
                        !.pc = IF loopContinues(rr.attempt + 1, rr.maxRetries)
                               THEN "call" ELSE "thrown"]
    /\ UNCHANGED notRetry

(***************************************************************************)
(* QueryClient default options: the retry predicates                       *)
(***************************************************************************)
\* error?.response?.status of the value the query function rejected with
errorResponseStatus(error) ==
    IF "response" \in DOMAIN error THEN error.response.status ELSE 0

\* defaultOptions.queries.retry
queriesRetry(failureCount, error) ==
    IF errorResponseStatus(error) >= 400 /\ errorResponseStatus(error) < 500
    THEN FALSE
    ELSE failureCount < 2

\* defaultOptions.mutations.retry
mutationsRetry(failureCount, error) ==
    IF errorResponseStatus(error) >= 400 /\ errorResponseStatus(error) < 500
    THEN FALSE
    ELSE failureCount < 1

FetchIdle ==
    [pc |-> "idle", kind |-> "query", failureCount |-> 0, calls |-> 0,
     first |-> NoOutcome, last |-> NoOutcome, error |-> NoError]

\* A query is fetched, or a mutation is executed, with the default options.
queryClientExecute(kind) ==
    /\ qf.pc = "idle"
    /\ qf' = [qf EXCEPT !.pc = "call", !.kind = kind]
    /\ UNCHANGED notQuery

\* The apiService call of the query/mutation function settles and the
\* retryer consults the retry predicate with the current failure count.
queryFnSettles(o, error) ==
    /\ qf.pc = "call"
    /\ LET called == [qf EXCEPT !.calls = @ + 1,
                                !.first = IF qf.calls = 0 THEN o ELSE @,
                                !.last = o]
           shouldRetry == IF qf.kind = "query"
                          THEN queriesRetry(qf.failureCount, error)
                          ELSE mutationsRetry(qf.failureCount, error)
       IN  IF o.kind = "ok"
           THEN qf' = [called EXCEPT !.pc = "success"]
           ELSE IF shouldRetry
           THEN qf' = [called EXCEPT !.failureCount = @ + 1, !.error = error]
           ELSE qf' = [called EXCEPT !.pc = "error", !.error = error]
    /\ UNCHANGED notQuery


(***************************************************************************)
(* Text inputs                                                             *)
(***************************************************************************)
Chars == {" ", "a"}

RECURSIVE TextsUpTo(_)
TextsUpTo(n) ==
    IF n = 0 THEN {<<>>}
    ELSE TextsUpTo(n - 1) \cup {Append(t, c) : t \in TextsUpTo(n - 1), c \in Chars}

Texts == TextsUpTo(MaxTextLen)

RECURSIVE trimStart(_)
trimStart(t) == IF t # <<>> /\ Head(t) = " " THEN trimStart(Tail(t)) ELSE t

RECURSIVE trimEnd(_)
trimEnd(t) ==
    IF t # <<>> /\ t[Len(t)] = " " THEN trimEnd(SubSeq(t, 1, Len(t) - 1)) ELSE t

\* String.prototype.trim
trim(t) == trimEnd(trimStart(t))

(***************************************************************************)
(* MainApp (the sidebar-based application)                                 *)
(***************************************************************************)
Undefined == "undefined"
FolderIds == {"F1", "F2"}
DocumentIds == {"D1", "D2"}

\* JavaScript truthiness of an optional id (ids are non-empty strings)
truthy(x) == x # Undefined

\* JavaScript truthiness of a text
nonEmpty(t) == t # <<>>

NoRequest == [sent |-> FALSE]

AppInit ==
    [searchQuery |-> <<>>,
     selectedFolderId |-> Undefined,
     selectedDocumentId |-> Undefined,
     showSearchResults |-> FALSE,
     prevRequest |-> NoRequest,
     lastRequest |-> NoRequest]

\* <SearchBar onSearch={handleSearch} placeholder=... />: MainApp passes no
\* selectedFolderId/selectedDocumentId, so both props are undefined.
SearchBarProps ==
    [selectedFolderId |-> Undefined, selectedDocumentId |-> Undefined]

\* MainApp.handleSearch
handleSearch(a, query, folderId, documentId) ==
    [a EXCEPT !.searchQuery = query,
              !.showSearchResults = TRUE,
              !.selectedFolderId = IF truthy(folderId) THEN folderId ELSE @,
              !.selectedDocumentId = IF truthy(documentId) THEN documentId ELSE @]

\* mutant: the competing selection is kept
handleFolderSelect_KeepsDocument(a, folderId) ==
    [a EXCEPT !.selectedFolderId = folderId]

\* MainApp.handleFolderSelect
handleFolderSelect(a, folderId) ==
    [a EXCEPT !.selectedFolderId = folderId,
              !.selectedDocumentId = Undefined]

\* MainApp.handleDocumentSelect
handleDocumentSelect(a, documentId) ==
    [a EXCEPT !.selectedDocumentId = documentId,
              !.selectedFolderId = Undefined]

\* MainApp.handleBackToChat
handleBackToChat(a) ==
    [a EXCEPT !.showSearchResults = FALSE, !.searchQuery = <<>>]

\* The JSON body of POST /search/: { query, ...options } with the keys whose
\* value is undefined left out by the serializer.
searchBody(query, options) ==
    LET ids == {k \in DOMAIN options \ {"limit"} : options[k] # Undefined}
        defined == ids \cup (DOMAIN options \cap {"limit"})
    IN  [k \in defined \cup {"query"} |->
            IF k = "query" THEN query ELSE options[k]]

\* enabled: !!searchQuery && showSearchResults
searchEnabled(a) == nonEmpty(a.searchQuery) /\ a.showSearchResults

\* SearchBar.handleSubmit inside MainApp
SearchBarSubmit(text) ==
    /\ nonEmpty(trim(text))
    /\ app' = handleSearch(app, trim(text), SearchBarProps.selectedFolderId,
                           SearchBarProps.selectedDocumentId)
    /\ UNCHANGED notApp

\* The Sidebar reports a folder (toggleFolder ends in onFolderSelect).
SidebarSelectsFolder(f) ==
    /\ app' = handleFolderSelect(app, f)
    /\ UNCHANGED notApp

\* The Sidebar reports a document (handleDocumentClick).
SidebarSelectsDocument(d) ==
    /\ app' = handleDocumentSelect(app, d)
    /\ UNCHANGED notApp

BackToChat ==
    /\ app.showSearchResults
    /\ app' = handleBackToChat(app)
    /\ UNCHANGED notApp

\* useSearch(searchQuery, {folderId, documentId, limit: 20}, {enabled}) runs
\* its query function: apiService.search posts the body.
SearchRequest ==
    /\ searchEnabled(app)
    /\ app' = [app EXCEPT !.prevRequest = app.lastRequest, !.lastRequest =
                 [sent |-> TRUE,
                  body |-> searchBody(app.searchQuery,
                                      [folderId |-> app.selectedFolderId,
                                       documentId |-> app.selectedDocumentId,
                                       limit |-> 20]),
                  selectedFolderId |-> app.selectedFolderId,
                  selectedDocumentId |-> app.selectedDocumentId]]
    /\ UNCHANGED notApp

NextApp ==
    \/ \E t \in Texts : SearchBarSubmit(t)
    \/ \E f \in FolderIds : SidebarSelectsFolder(f)
    \/ \E d \in DocumentIds : SidebarSelectsDocument(d)
    \/ BackToChat
    \/ SearchRequest

\* C6: in MainApp the folder and the document selection are never both
\* defined, and a search request sent while folder F is selected carries
\* folderId = F and no documentId.
C6_ContextFiltersExclusive ==
    /\ ~ (app.selectedFolderId # Undefined /\ app.selectedDocumentId # Undefined)
    /\ app.lastRequest.sent =>
          /\ ~ ({"folderId", "documentId"} \subseteq DOMAIN app.lastRequest.body)
          /\ app.lastRequest.selectedFolderId # Undefined =>
                /\ "folderId" \in DOMAIN app.lastRequest.body
                /\ app.lastRequest.body.folderId = app.lastRequest.selectedFolderId
                /\ "documentId" \notin DOMAIN app.lastRequest.body

\* C6 witness: a request was sent for document D, then folder F was selected
\* and the next request carried folderId = F.
C6_Witness ==
    /\ app.prevRequest.sent
    /\ app.prevRequest.selectedDocumentId = "D1"
    /\ app.lastRequest.sent
    /\ app.lastRequest.selectedFolderId = "F1"
    /\ app.lastRequest.body.folderId = "F1"

(***************************************************************************)
(* ChatPanel                                                               *)
(***************************************************************************)
\* What the user types into the chat textarea: nothing, blanks only, text
\* with blanks around it.
ChatInputs == {<<>>, <<" ">>, <<" ", "b", " ">>}

RagModes == {"standard", "conversation", "multi-step", "summarize", "compare"}

\* <ChatPanel contextId={selectedContext?.id} contextType={selectedContext?.type} />;
\* documentIds is never passed and keeps its default [].
NoContext == [contextId |-> Undefined, contextType |-> Undefined, documentIds |-> <<>>]

ChatProps ==
    {NoContext,
     [contextId |-> "F1", contextType |-> "folder", documentIds |-> <<>>],
     [contextId |-> "D1", contextType |-> "document", documentIds |-> <<>>]}

\* The useState initial values, and no mutation started.  `now` stands for
\* Date.now(), a clock that ticks once per accepted send and so numbers the
\* requests; `sent`, `resetAt` and `plain` record the session's past for the
\* claims and are read by no handler.
ChatInit(props) ==
    [props |-> props,
     messages |-> <<>>,
     inputValue |-> <<>>,
     conversationId |-> <<>>,
     sessionId |-> <<"session", 0>>,
     ragMode |-> "standard",
     conversationHistory |-> <<>>,
     pending |-> {},
     observer |-> [m \in RagModes |-> 0],
     now |-> 0,
     sent |-> <<>>,
     resetAt |-> 0,
     plain |-> TRUE]

\* mutation.isPending of the hook serving `mode`: the status of the mutation
\* its observer currently follows
isPending(c, mode) == \E p \in c.pending : p.req = c.observer[mode]

\* mutant: the guard that refuses a send while a mutation is pending is lost
isAnyMutationPending_Never(c) == FALSE

\* isAnyMutationPending in handleSendMessage
isAnyMutationPending(c) == \E mode \in RagModes : isPending(c, mode)

\* mutant: the placeholder is removed and the reply appended as a new message
updateLoadingMessage_Reinsert(messages, content, sources, ragType, metadata) ==
    LET kept == SelectSeq(messages, LAMBDA m : ~ m.isLoading)
    IN  IF Len(kept) = Len(messages) THEN messages
        ELSE Append(kept, [id |-> <<"assistant", -1>>, type |-> "assistant",
                           content |-> content, timestamp |-> -1,
                           isLoading |-> FALSE, ragType |-> ragType,
                           sources |-> sources, metadata |-> metadata])

\* updateLoadingMessage: prev.map(msg => msg.isLoading ? {...msg, ...} : msg)
updateLoadingMessage(messages, content, sources, ragType, metadata) ==
    [i \in 1..Len(messages) |->
        IF messages[i].isLoading
        THEN [messages[i] EXCEPT !.content = content,
                                 !.sources = sources,
                                 !.isLoading = FALSE,
                                 !.ragType = ragType,
                                 !.metadata = metadata]
        ELSE messages[i]]

\* updateConversationHistory
updateConversationHistory(history, question, answer) ==
    Append(history, [question |-> question, answer |-> answer])

\* Array.prototype.lastIndexOf over prev.map(m => m.type); 0 stands for -1
lastIndexOfType(messages, type) ==
    LET hits == {i \in 1..Len(messages) : messages[i].type = type}
    IN  IF hits = {} THEN 0 ELSE CHOOSE i \in hits : \A j \in hits : j <= i

\* The variables passed to mutate(), and whether a mutation is started at
\* all, for one mode (the switch of handleSendMessage).
startsMutation(c, mode) ==
    CASE mode = "summarize" -> truthy(c.props.contextId) /\ c.props.contextType = "document"
      [] mode = "compare" -> Len(c.props.documentIds) >= 2
      [] OTHER -> TRUE

\* handleSendMessage(content, mode)
handleSendMessage(c, content, mode) ==
    LET currentMode == IF mode # Undefined THEN mode ELSE c.ragMode
        text == trim(content)
        now == c.now + 1
        req == now
        userMessage == [id |-> <<"user", now>>, type |-> "user", content |-> text,
                        timestamp |-> now, isLoading |-> FALSE, ragType |-> currentMode,
                        sources |-> <<>>, metadata |-> <<>>]
        loadingMessage == [id |-> <<"assistant", now>>, type |-> "assistant",
                           content |-> <<>>, timestamp |-> now, isLoading |-> TRUE,
                           ragType |-> currentMode, sources |-> <<>>, metadata |-> <<>>]
        appended == c.messages \o <<userMessage, loadingMessage>>
        accepted == [c EXCEPT !.now = now,
                              !.inputValue = <<>>,
                              !.sent = Append(@, text)]
    IN  IF ~ nonEmpty(text) \/ isAnyMutationPending(c)
        THEN c
        ELSE IF startsMutation(c, currentMode)
        THEN [accepted EXCEPT
                !.messages = appended,
                !.observer[currentMode] = req,
                !.pending = @ \cup {[req |-> req, mode |-> currentMode,
                                     question |-> text]}]
        ELSE [accepted EXCEPT
                !.messages = updateLoadingMessage(
                    appended,
                    IF currentMode = "summarize"
                    THEN <<"Please select a document to summarize.", req>>
                    ELSE <<"Please select at least 2 documents to compare.", req>>,
                    <<>>, currentMode, <<>>)]

\* handleRetryLastMessage
handleRetryLastMessage(c) ==
    LET users == SelectSeq(c.messages, LAMBDA m : m.type = "user")
        lastAssistantIndex == lastIndexOfType(c.messages, "assistant")
        cut == [c EXCEPT !.messages = IF lastAssistantIndex # 0
                                      THEN SubSeq(@, 1, lastAssistantIndex - 1)
                                      ELSE @,
                         !.plain = FALSE]
    IN  IF users # <<>>
        THEN handleSendMessage(cut, users[Len(users)].content, Undefined)
        ELSE c

\* clearConversation
clearConversation(c) ==
    [c EXCEPT !.messages = <<>>,
              !.conversationId = <<>>,
              !.sessionId = <<"session", c.now>>,
              !.conversationHistory = <<>>,
              !.resetAt = c.now,
              !.plain = FALSE]

\* onSuccess of the mutation serving p.mode.  The backend's answer to
\* request n is <<"answer", n>>; conversationId is data.conversationId.
mutationOnSuccess(c, p, conversationId) ==
    LET answer == <<"answer", p.req>>
        sources == <<"sources", p.req>>
        metadata == CASE p.mode = "multi-step" -> <<"steps", 3>>
                      [] p.mode = "summarize" -> <<"documentIds", c.props.contextId>>
                      [] p.mode = "compare" -> <<"documentIds", c.props.documentIds>>
                      [] OTHER -> <<>>
        shown == [c EXCEPT !.messages =
                     updateLoadingMessage(@, answer, sources, p.mode, metadata)]
    IN  CASE p.mode = "standard" ->
               [shown EXCEPT
                  !.conversationHistory = updateConversationHistory(@, p.question, answer),
                  !.conversationId = IF conversationId # <<>> THEN conversationId ELSE @]
          [] p.mode \in {"conversation", "multi-step"} ->
               [shown EXCEPT
                  !.conversationHistory = updateConversationHistory(@, p.question, answer)]
          [] OTHER -> shown

\* onError of the mutation serving p.mode
mutationOnError(c, p) ==
    [c EXCEPT !.messages =
        updateLoadingMessage(@, <<"Sorry, I encountered an error: ", p.req>>,
                             <<>>, p.mode, <<>>)]

\* The parent renders the panel with another selected context.
ChatPropsChange(props) ==
    /\ chat.props # props
    /\ chat' = [chat EXCEPT !.props = props]
    /\ UNCHANGED notChat

\* The mode <select> changes.
ChatSetRagMode(mode) ==
    /\ chat.ragMode # mode
    /\ chat' = [chat EXCEPT !.ragMode = mode]
    /\ UNCHANGED notChat

\* The user types `text` (onChange) and submits it: handleInputSubmit or
\* handleKeyDown call handleSendMessage(inputValue).
ChatSend(text) ==
    /\ chat.now < MaxSends
    /\ chat' = handleSendMessage([chat EXCEPT !.inputValue = text], text, Undefined)
    /\ chat' # chat
    /\ UNCHANGED notChat

\* handleQuickAction('summarize'); its button is disabled without a document
ChatQuickSummarize ==
    /\ chat.now < MaxSends
    /\ truthy(chat.props.contextId) /\ chat.props.contextType = "document"
    /\ chat' = handleSendMessage([chat EXCEPT !.ragMode = "summarize"],
                                 <<"a">>, "summarize")
    /\ chat' # chat
    /\ UNCHANGED notChat

\* The Retry button of a settled assistant message.  The bound caps the
\* requests only: a Retry pressed while a request is pending starts none.
ChatRetry ==
    /\ chat.now < MaxSends \/ isAnyMutationPending(chat)
    /\ \E i \in 1..Len(chat.messages) :
          chat.messages[i].type = "assistant" /\ ~ chat.messages[i].isLoading
    /\ chat' = handleRetryLastMessage(chat)
    /\ UNCHANGED notChat

\* The Clear Chat button, rendered while messages.length > 0.
ChatClear ==
    /\ Len(chat.messages) > 0
    /\ chat' = clearConversation(chat)
    /\ UNCHANGED notChat

\* The backend answers a pending request.
ChatReplySuccess(p, conversationId) ==
    /\ p \in chat.pending
    /\ chat' = [mutationOnSuccess(chat, p, conversationId) EXCEPT !.pending = @ \ {p}]
    /\ UNCHANGED notChat

\* A pending request fails (after the mutation's own retries).
ChatReplyError(p) ==
    /\ p \in chat.pending
    /\ chat' = [mutationOnError(chat, p) EXCEPT !.pending = @ \ {p}]
    /\ UNCHANGED notChat

NextChat ==
    \/ \E props \in ChatProps : ChatPropsChange(props)
    \/ \E m \in RagModes : ChatSetRagMode(m)
    \/ \E t \in ChatInputs : ChatSend(t)
    \/ ChatQuickSummarize
    \/ ChatRetry
    \/ ChatClear
    \/ \E p \in chat.pending :
          \E id \in {<<>>, <<"conv", p.req>>} : ChatReplySuccess(p, id)
    \/ \E p \in chat.pending : ChatReplyError(p)

\* C7: in a session without retry and clear, the message list is the
\* concatenation, in send order, of the pairs (user message, its own reply
\* or its loading placeholder); a placeholder belongs to a pending request.
C7_MessagesInTurnOrder ==
    chat.plain =>
        /\ Len(chat.messages) = 2 * Len(chat.sent)
        /\ \A i \in 1..Len(chat.sent) :
              LET user == chat.messages[2 * i - 1]
                  reply == chat.messages[2 * i]
              IN  /\ user.type = "user"
                  /\ user.id = <<"user", i>>
                  /\ user.content = chat.sent[i]
                  /\ reply.type = "assistant"
                  /\ reply.id = <<"assistant", i>>
                  /\ IF reply.isLoading
                     THEN \E p \in chat.pending : p.req = i
                     ELSE reply.content[2] = i

\* C7 witness: two exchanges, the first answered with an error and the
\* second with an answer.
C7_Witness ==
    /\ chat.plain
    /\ Len(chat.messages) = 4
    /\ chat.messages[2].content = <<"Sorry, I encountered an error: ", 1>>
    /\ chat.messages[4].content = <<"answer", 2>>

\* C8: a step in which a reply resolves or fails keeps the length of the
\* message list and the id, type and timestamp of every message, leaves every
\* message that was not loading identical, and ends the loading state of the
\* placeholder.
C8_PlaceholderReplacedInPlace ==
    [][(chat'.pending # chat.pending /\ chat'.pending \subseteq chat.pending)
          => /\ Len(chat'.messages) = Len(chat.messages)
             /\ \A i \in 1..Len(chat.messages) :
                   /\ chat'.messages[i].id = chat.messages[i].id
                   /\ chat'.messages[i].type = chat.messages[i].type
                   /\ chat'.messages[i].timestamp = chat.messages[i].timestamp
                   /\ ~ chat.messages[i].isLoading
                         => chat'.messages[i] = chat.messages[i]
                   /\ chat.messages[i].isLoading
                         => ~ chat'.messages[i].isLoading]_vars

\* C8 witness: the second reply was written into its placeholder while the
\* first exchange was already in the list.
C8_Witness ==
    /\ Len(chat.messages) = 4
    /\ chat.pending = {}
    /\ chat.messages[2].content = <<"answer", 1>>
    /\ chat.messages[4].content = <<"answer", 2>>
    /\ chat.messages[4].sources = <<"sources", 2>>

\* C9: after clearConversation, conversationHistory, conversationId and
\* messages hold only data of requests sent after the reset.
C9_ResetDiscardsEarlierReplies ==
    /\ \A i \in 1..Len(chat.conversationHistory) :
          chat.conversationHistory[i].answer[2] > chat.resetAt
    /\ chat.conversationId # <<>> => chat.conversationId[2] > chat.resetAt
    /\ \A i \in 1..Len(chat.messages) : chat.messages[i].timestamp > chat.resetAt

(***************************************************************************)
(* The QueryClient cache and the indexing mutation hooks                   *)
(***************************************************************************)
CacheKeys ==
    {<<"folders">>, <<"documents", "F1">>, <<"indexedDocuments">>, <<"searchStats">>}

CacheInit == [k \in CacheKeys |-> [isInvalidated |-> FALSE]]

\* queryClient.invalidateQueries({ queryKey: prefix })
invalidateQueries(c, prefix) ==
    [k \in DOMAIN c |->
        IF startsWith(k, prefix) THEN [c[k] EXCEPT !.isInvalidated = TRUE] ELSE c[k]]

\* onSuccess of useIndexDocument / useBatchIndexDocuments /
\* useRemoveDocumentFromIndex as the hooks define it
invalidateIndexQueries(c) ==
    invalidateQueries(
        invalidateQueries(invalidateQueries(c, <<"documents">>), <<"indexedDocuments">>),
        <<"searchStats">>)


\* useMutation({ mutationFn, onSuccess, ...options }): a key of options
\* replaces the same key of the hook
mergeOptions(defaults, options) ==
    [k \in DOMAIN defaults \cup DOMAIN options |->
        IF k \in DOMAIN options THEN options[k] ELSE defaults[k]]

\* The callbacks each hook defines itself.
HookDefaults == [onSuccess |-> "invalidateIndexQueries"]

\* The options each call site passes: the Sidebar's two mutations, and a
\* call of a hook without options.
CallSiteOptions(site) ==
    CASE site = "sidebarIndex" ->
            [onMutate |-> "indexOnMutate", onSuccess |-> "indexOnSuccess",
             onError |-> "indexOnError"]
      [] site = "sidebarBatch" ->
            [onMutate |-> "batchOnMutate", onSuccess |-> "batchOnSuccess",
             onError |-> "batchOnError"]
      [] OTHER -> <<>>

\* The callback a mutation of `site` runs for `event`, "none" if there is none.
callbackOf(site, event) ==
    LET options == mergeOptions(HookDefaults, CallSiteOptions(site))
    IN  IF event \in DOMAIN options THEN options[event] ELSE "none"

(***************************************************************************)
(* Sidebar                                                                 *)
(***************************************************************************)
\* response.data.files of GET /documents?folderId=f
Files(f) == IF f = "F1" THEN {"D1"} ELSE {"D2"}

NoDocuments == [load |-> 0, files |-> {}]

SidebarInit ==
    [expandedFolders |-> {},
     folderTree |-> [f \in FolderIds |-> [documents |-> NoDocuments, isLoading |-> FALSE]],
     indexingDocuments |-> {},
     indexedDocuments |-> {},
     selectedDocuments |-> {},
     loads |-> {},
     issued |-> 0,
     mutations |-> {},
     started |-> 0,
     succeeded |-> FALSE,
     batchObserver |-> 0,
     timers |-> {}]

\* !folder.documents
hasNoDocuments(folder) == folder.documents = NoDocuments

\* The documents rendered under the expanded folders.
visibleDocuments(s) ==
    UNION {s.folderTree[f].documents.files : f \in s.expandedFolders}

\* batchIndexMutation.isPending
batchIsPending(s) == \E m \in s.mutations : m.id = s.batchObserver

\* toggleFolder starts a load only for an expanding folder without documents.
startsLoad(s, folderId) ==
    /\ folderId \notin s.expandedFolders
    /\ hasNoDocuments(s.folderTree[folderId])

\* toggleFolder(folderId)
toggleFolder(folderId) ==
    /\ startsLoad(sb, folderId) => sb.issued < MaxLoads
    /\ IF folderId \in sb.expandedFolders
       THEN /\ sb' = [sb EXCEPT !.expandedFolders = @ \ {folderId}]
            /\ app' = handleFolderSelect(app, folderId)
       ELSE IF hasNoDocuments(sb.folderTree[folderId])
       THEN /\ sb' = [sb EXCEPT
                        !.expandedFolders = @ \cup {folderId},
                        !.folderTree[folderId].isLoading = TRUE,
                        !.issued = @ + 1,
                        !.loads = @ \cup {[id |-> sb.issued + 1, folderId |-> folderId]}]
            /\ UNCHANGED app
       ELSE /\ sb' = [sb EXCEPT !.expandedFolders = @ \cup {folderId}]
            /\ app' = handleFolderSelect(app, folderId)
    /\ UNCHANGED <<cache, notSidebar>>

\* loadFolderDocuments: getDocuments resolved; toggleFolder then resumes and
\* calls onFolderSelect.
loadFolderDocumentsResolves(l) ==
    /\ l \in sb.loads
    /\ sb' = [sb EXCEPT
                !.loads = @ \ {l},
                !.folderTree[l.folderId] =
                    [documents |-> [load |-> l.id, files |-> Files(l.folderId)],
                     isLoading |-> FALSE]]
    /\ app' = handleFolderSelect(app, l.folderId)
    /\ UNCHANGED <<cache, notSidebar>>

\* loadFolderDocuments: getDocuments rejected; the catch block only logs.
loadFolderDocumentsRejects(l) ==
    /\ l \in sb.loads
    /\ sb' = [sb EXCEPT !.loads = @ \ {l}]
    /\ app' = handleFolderSelect(app, l.folderId)
    /\ UNCHANGED <<cache, notSidebar>>

\* handleDocumentClick
handleDocumentClick(d) ==
    /\ d \in visibleDocuments(sb)
    /\ app' = handleDocumentSelect(app, d)
    /\ UNCHANGED <<sb, cache, notSidebar>>

\* handleSelectAll (no filter text typed: filteredTree is folderTree)
handleSelectAll ==
    /\ sb' = [sb EXCEPT !.selectedDocuments =
                 UNION {sb.folderTree[f].documents.files : f \in FolderIds}]
    /\ sb' # sb
    /\ UNCHANGED <<app, cache, notSidebar>>

\* handleDeselectAll
handleDeselectAll ==
    /\ sb.selectedDocuments # {}
    /\ sb' = [sb EXCEPT !.selectedDocuments = {}]
    /\ UNCHANGED <<app, cache, notSidebar>>

\* The callbacks the Sidebar passes, applied to its state.
runSidebarCallback(s, name, m) ==
    CASE name = "indexOnMutate" \/ name = "batchOnMutate" ->
            [s EXCEPT !.indexingDocuments = @ \cup m.documentIds]
      [] name = "indexOnSuccess" ->
            [s EXCEPT !.indexingDocuments = @ \ m.documentIds,
                      !.indexedDocuments = @ \cup m.documentIds,
                      !.timers = @ \cup {[id |-> m.id, clears |-> "document",
                                          documentIds |-> m.documentIds]}]
      [] name = "batchOnSuccess" ->
            [s EXCEPT !.indexingDocuments = @ \ m.documentIds,
                      !.indexedDocuments = @ \cup m.documentIds,
                      !.selectedDocuments = {},
                      !.timers = @ \cup {[id |-> m.id, clears |-> "all",
                                          documentIds |-> m.documentIds]}]
      [] name = "indexOnError" \/ name = "batchOnError" ->
            [s EXCEPT !.indexingDocuments = @ \ m.documentIds]
      [] OTHER -> s

\* The callbacks of the hooks, applied to the cache.
runHookCallback(c, name) ==
    IF name = "invalidateIndexQueries" THEN invalidateIndexQueries(c) ELSE c

\* mutation.mutate(variables) at one call site: onMutate runs at once.
mutate(site, documentIds) ==
    /\ sb.started < MaxMutations
    /\ LET m == [id |-> sb.started + 1, site |-> site, documentIds |-> documentIds]
           begun == [sb EXCEPT !.started = @ + 1,
                               !.mutations = @ \cup {m},
                               !.batchObserver = IF site = "sidebarBatch" THEN m.id ELSE @]
       IN  sb' = runSidebarCallback(begun, callbackOf(site, "onMutate"), m)
    /\ UNCHANGED <<app, cache, notSidebar>>

\* handleIndexClick
handleIndexClick(d) ==
    /\ d \in visibleDocuments(sb)
    /\ mutate("sidebarIndex", {d})

\* handleBulkIndex; its button is disabled while the batch mutation is pending
handleBulkIndex ==
    /\ ~ batchIsPending(sb)
    /\ sb.selectedDocuments # {}
    /\ mutate("sidebarBatch", sb.selectedDocuments)

\* One of the three hooks used without options.
mutateWithHookDefaults(d) ==
    mutate("hookDefaults", {d})

\* An indexing mutation succeeds: the merged onSuccess runs.
indexMutationSucceeds(m) ==
    /\ m \in sb.mutations
    /\ LET name == callbackOf(m.site, "onSuccess")
           settled == [sb EXCEPT !.mutations = @ \ {m}, !.succeeded = ~ @]
       IN  /\ sb' = runSidebarCallback(settled, name, m)
           /\ cache' = runHookCallback(cache, name)
    /\ UNCHANGED <<app, notSidebar>>

\* An indexing mutation fails: the merged onError runs.
indexMutationFails(m) ==
    /\ m \in sb.mutations
    /\ sb' = runSidebarCallback([sb EXCEPT !.mutations = @ \ {m}],
                                callbackOf(m.site, "onError"), m)
    /\ UNCHANGED <<app, cache, notSidebar>>

\* mutant: the timer of a single-document success clears nothing
successTimerFires_BatchOnly(t) ==
    /\ t \in sb.timers
    /\ sb' = [sb EXCEPT !.timers = @ \ {t},
                        !.indexedDocuments = IF t.clears = "all" THEN {} ELSE @]
    /\ UNCHANGED <<app, cache, notSidebar>>

\* A 3-second success timer fires.
successTimerFires(t) ==
    /\ t \in sb.timers
    /\ sb' = [sb EXCEPT !.timers = @ \ {t},
                        !.indexedDocuments = IF t.clears = "all" THEN {}
                                             ELSE @ \ t.documentIds]
    /\ UNCHANGED <<app, cache, notSidebar>>

\* A component reads an invalidated entry: the query refetches.
cacheRefetch(k) ==
    /\ cache[k].isInvalidated
    /\ cache' = [cache EXCEPT ![k].isInvalidated = FALSE]
    /\ UNCHANGED <<app, sb, notSidebar>>

\* The folder tree: expanding, collapsing, loading and selecting.
NextFolders ==
    \/ \E f \in FolderIds : toggleFolder(f)
    \/ \E l \in sb.loads : loadFolderDocumentsResolves(l)
    \/ \E l \in sb.loads : loadFolderDocumentsRejects(l)
    \/ \E d \in DocumentIds : handleDocumentClick(d)

\* Selecting documents, indexing them, and the success timers.
IndexingActions ==
    \/ handleSelectAll
    \/ handleDeselectAll
    \/ \E d \in DocumentIds : handleIndexClick(d)
    \/ handleBulkIndex
    \/ \E m \in sb.mutations : indexMutationSucceeds(m)
    \/ \E m \in sb.mutations : indexMutationFails(m)
    \/ \E t \in sb.timers : successTimerFires(t)

\* The Sidebar's indexing actions on the documents it shows.
NextIndexing ==
    \/ \E f \in FolderIds : toggleFolder(f)
    \/ \E l \in sb.loads : loadFolderDocumentsResolves(l)
    \/ IndexingActions

\* The Sidebar, the hooks used without options, and the cache.
NextSidebar ==
    \/ NextFolders
    \/ IndexingActions
    \/ \E d \in DocumentIds : mutateWithHookDefaults(d)
    \/ \E k \in CacheKeys : cacheRefetch(k)

\* C3: a step in which an indexing mutation succeeds leaves every cache
\* entry whose key starts with documents, indexedDocuments or searchStats
\* marked stale.
C3_IndexSuccessInvalidates ==
    [][sb'.succeeded # sb.succeeded
          => \A k \in CacheKeys :
                (\E prefix \in {<<"documents">>, <<"indexedDocuments">>, <<"searchStats">>} :
                     startsWith(k, prefix))
                    => cache'[k].isInvalidated]_vars

\* C10: at most one document load per folder is in flight at any time.
C10_OneLoadInFlightPerFolder ==
    \A f \in FolderIds : Cardinality({l \in sb.loads : l.folderId = f}) <= 1

\* C19: completions of concurrent loads of one folder are applied so that a
\* request issued earlier never overwrites the result of a request issued
\* after it: the documents of a folder never go back to those of an
\* earlier-issued load.
C19_LaterIssuedLoadWins ==
    [][\A f \in FolderIds :
          sb'.folderTree[f].documents.load >= sb.folderTree[f].documents.load]_vars

(***************************************************************************)
(* Query keys of the useQuery call sites                                   *)
(***************************************************************************)
\* chunk indexes a snippet viewer is opened on
ChunkIndexes == {0, 1}

\* debounced texts of the search box
SuggestionQueries == {<<"a">>, <<"a", "b">>}

\* the components and hooks that read a snippet, the search suggestions or
\* the root folders
SnippetSites == {"SnippetView", "useSpecificSnippet"}
SuggestionSites == {"SearchBar", "useSearchSuggestions"}
FolderSites == {"Sidebar", "useFolders"}
QueryCallSites == SnippetSites \cup SuggestionSites \cup FolderSites

\* the arguments a call site can be rendered with
SiteParams(site) ==
    IF site \in SnippetSites
    THEN [documentId : DocumentIds, chunkIndex : ChunkIndexes]
    ELSE IF site \in SuggestionSites
    THEN [query : SuggestionQueries]
    ELSE {[parentId |-> Undefined]}

\* queryKey of each call site
queryKey(site, p) ==
    CASE site = "SnippetView" -> <<"snippet", p.documentId, p.chunkIndex>>
      [] site = "useSpecificSnippet" -> <<"specificSnippet", p.documentId, p.chunkIndex>>
      [] site = "SearchBar" -> <<"search-suggestions", p.query>>
      [] site = "useSearchSuggestions" -> <<"searchSuggestions", p.query, 5>>
      [] site = "Sidebar" -> <<"folders">>
      [] site = "useFolders" -> <<"folders", p.parentId, Undefined>>

\* the backend call queryFn makes: the ApiService method and its arguments
queryFnRequest(site, p) ==
    CASE site \in SnippetSites -> <<"getSpecificSnippet", p.documentId, p.chunkIndex>>
      [] site \in SuggestionSites -> <<"getSearchSuggestions", p.query, 5>>
      [] site \in FolderSites -> <<"getFolders", p.parentId, Undefined>>

\* the enabled option of each call site (the viewers being open)
queryEnabled(site, p) ==
    CASE site \in SnippetSites -> truthy(p.documentId) /\ p.chunkIndex >= 0
      [] site \in SuggestionSites -> nonEmpty(p.query) /\ Len(p.query) > 1
      [] site \in FolderSites -> TRUE

\* A call site is rendered: useQuery subscribes to the entry of its key and
\* creates and fetches it when the cache has none.
useQueryMounts(site, p) ==
    /\ queryEnabled(site, p)
    /\ \A e \in qc : e.key # queryKey(site, p)
    /\ qc' = qc \cup {[key |-> queryKey(site, p), request |-> queryFnRequest(site, p)]}
    /\ UNCHANGED notKeys

\* An unobserved entry is garbage-collected.
queryEntryRemoved(e) ==
    /\ e \in qc
    /\ qc' = qc \ {e}
    /\ UNCHANGED notKeys

NextKeys ==
    \/ \E site \in QueryCallSites : \E p \in SiteParams(site) : useQueryMounts(site, p)
    \/ \E e \in qc : queryEntryRemoved(e)

\* C11: identical logical requests have equal cache keys whatever the call
\* site: no two cache entries hold the result of the same backend call.
C11_SameRequestSameKey ==
    \A e1, e2 \in qc : e1.request = e2.request => e1.key = e2.key

(***************************************************************************)
(* SearchPage (the search screen), its SearchBar and its ResultsList       *)
(***************************************************************************)
\* contextOptions of the SearchBar; null is no selection
ContextOptions ==
    {[id |-> "all", type |-> "folder"], [id |-> "reports", type |-> "folder"]}
NoContextOption == [id |-> Undefined, type |-> Undefined]

\* the context argument handleSubmit builds
submitContext(selectedContext) ==
    IF selectedContext # NoContextOption /\ selectedContext.id # "all"
    THEN [type |-> selectedContext.type, id |-> selectedContext.id]
    ELSE NoContextOption

\* texts typed into the search bar
SearchInputs == {<<>>, <<" ">>, <<"a">>, <<" ", "a">>, <<"b", " ">>}

\* trimmed texts the search bar can submit
SearchQueries == {trim(t) : t \in SearchInputs}

\* result sets the backend answers a search with
ResultSets == {<<>>, <<"A", "B">>}

SearchHooks == {"search", "semanticSearch"}

\* queryKey of useSearch / useSemanticSearch as SearchPage calls them
searchKey(hook, s) ==
    IF hook = "search"
    THEN <<"search", s.searchQuery,
           IF s.selectedContext.type = "folder" THEN s.selectedContext.id ELSE Undefined,
           20>>
    ELSE <<"semanticSearch", s.searchQuery, 20,
           IF s.selectedContext.type = "document" THEN s.selectedContext.id ELSE Undefined>>

SearchKeys ==
    {<<"search", q, f, 20>> : q \in SearchQueries, f \in {Undefined, "reports"}}
        \cup {<<"semanticSearch", q, 20, Undefined>> : q \in SearchQueries}

\* enabled: !!searchQuery && searchMode === <mode of the hook>
searchHookEnabled(hook, s) ==
    /\ nonEmpty(s.searchQuery)
    /\ s.searchMode = (IF hook = "search" THEN "search" ELSE "semantic")

NoData == [defined |-> FALSE, results |-> <<>>]
NoEntry == [data |-> NoData, error |-> FALSE, fetching |-> FALSE]

SearchPageInit ==
    [searchQuery |-> <<>>,
     selectedContext |-> NoContextOption,
     searchMode |-> "search",
     entries |-> [k \in SearchKeys |-> NoEntry],
     visibleResults |-> <<>>,
     lastSuccess |-> <<>>,
     typed |-> <<>>,
     searches |-> 0]

\* the query starts a fetch: without data it goes back to pending and its
\* error is reset, with data it keeps data and error until the fetch settles
fetchStarted(e) ==
    [e EXCEPT !.fetching = TRUE, !.error = IF e.data.defined THEN @ ELSE FALSE]

\* the fetch succeeded
fetchSucceeded(e, results) ==
    [data |-> [defined |-> TRUE, results |-> results], error |-> FALSE, fetching |-> FALSE]

\* the fetch failed after the QueryClient's retries
fetchFailed(e) == [e EXCEPT !.error = TRUE, !.fetching = FALSE]

\* what useSearch / useSemanticSearch return to SearchPage
hookData(hook, s) == s.entries[searchKey(hook, s)].data
hookError(hook, s) == s.entries[searchKey(hook, s)].error
hookIsLoading(hook, s) ==
    LET e == s.entries[searchKey(hook, s)] IN e.fetching /\ ~ e.data.defined

\* mutant: an errored query hands no results to the list
resultsProp_HiddenOnError(hook, s) ==
    IF hookData(hook, s).defined /\ ~ hookError(hook, s)
    THEN hookData(hook, s).results ELSE <<>>

\* results={searchData?.results || []}
resultsProp(hook, s) ==
    IF hookData(hook, s).defined THEN hookData(hook, s).results ELSE <<>>

\* the hook whose ResultsList is rendered (none in "rag" mode)
shownHook(s) ==
    IF s.searchMode = "search" THEN "search"
    ELSE IF s.searchMode = "semantic" THEN "semanticSearch" ELSE "none"

\* {(searchError || semanticSearchError) && ...}
errorShown(s) == hookError("search", s) \/ hookError("semanticSearch", s)

\* what ResultsList renders
resultsListView(isLoading, visibleResults) ==
    IF isLoading /\ Len(visibleResults) = 0 THEN "skeleton"
    ELSE IF ~ isLoading /\ Len(visibleResults) = 0 THEN "empty"
    ELSE "list"

\* the result cards on screen
displayedResults(s) ==
    IF shownHook(s) = "none" THEN <<>> ELSE s.visibleResults

\* A render of SearchPage and the effects that follow it: an observer whose
\* key changed or that became enabled fetches when its query has no data or
\* stale data, and ResultsList copies results into visibleResults.
rendered(old, new, stale) ==
    LET triggers(h) ==
            /\ searchHookEnabled(h, new)
            /\ (~ searchHookEnabled(h, old) \/ searchKey(h, new) # searchKey(h, old))
            /\ ~ new.entries[searchKey(h, new)].fetching
            /\ (new.entries[searchKey(h, new)].data.defined => stale)
        started == {searchKey(h, new) : h \in {g \in SearchHooks : triggers(g)}}
        s1 == [new EXCEPT !.entries =
                  [k \in SearchKeys |-> IF k \in started THEN fetchStarted(@[k]) ELSE @[k]]]
        shown == IF shownHook(s1) = "none" THEN <<>> ELSE resultsProp(shownHook(s1), s1)
        fresh == /\ shownHook(s1) # "none"
                 /\ hookData(shownHook(s1), s1).defined
                 /\ ~ hookError(shownHook(s1), s1)
    IN  [s1 EXCEPT !.visibleResults = shown,
                   !.lastSuccess = IF fresh THEN shown ELSE @]

\* SearchPage.handleSearch / handleSemanticSearch / handleRAGQuery
searchPageHandle(s, mode, query, context) ==
    [s EXCEPT !.searchQuery = query, !.selectedContext = context, !.searchMode = mode]

\* mutant: the untrimmed text is tested
handleSubmitAccepts_Untrimmed(query) == nonEmpty(query)

\* if (query.trim()) of SearchBar.handleSubmit
handleSubmitAccepts(query) == nonEmpty(trim(query))

\* SearchBar.handleSubmit on the search screen: the bar's own mode picks
\* onRAGQuery or onSearch
SearchPageSubmit(text, selectedContext, barMode, stale) ==
    /\ sp.searches < MaxSearches
    /\ handleSubmitAccepts(text)
    /\ LET new == searchPageHandle(sp, IF barMode = "rag" THEN "rag" ELSE "search",
                                   trim(text), submitContext(selectedContext))
       IN  sp' = [rendered(sp, new, stale) EXCEPT !.searches = @ + 1, !.typed = text]
    /\ UNCHANGED notSearch

\* onSemanticSearch={handleSemanticSearch}
SearchPageSemanticSearch(query, context, stale) ==
    /\ sp.searches < MaxSearches
    /\ nonEmpty(query)
    /\ sp' = [rendered(sp, searchPageHandle(sp, "semantic", query, context), stale)
                 EXCEPT !.searches = @ + 1, !.typed = query]
    /\ UNCHANGED notSearch

\* The fetch of a search query resolves with a result set.
searchFetchSucceeds(k, results) ==
    /\ sp.entries[k].fetching
    /\ sp' = rendered(sp, [sp EXCEPT !.entries[k] = fetchSucceeded(@, results)], FALSE)
    /\ UNCHANGED notSearch

\* The fetch of a search query is rejected (retries exhausted).
searchFetchFails(k) ==
    /\ sp.entries[k].fetching
    /\ sp' = rendered(sp, [sp EXCEPT !.entries[k] = fetchFailed(@)], FALSE)
    /\ UNCHANGED notSearch

\* "Try again" in the error box: refetchSearch() or refetchSemanticSearch()
SearchPageTryAgain ==
    /\ errorShown(sp)
    /\ LET k == searchKey(IF sp.searchMode = "search" THEN "search" ELSE "semanticSearch", sp)
       IN  /\ ~ sp.entries[k].fetching
           /\ sp' = rendered(sp, [sp EXCEPT !.entries[k] = fetchStarted(@)], FALSE)
    /\ UNCHANGED notSearch

NextSearch ==
    \/ \E t \in SearchInputs : \E c \in ContextOptions \cup {NoContextOption} :
           \E m \in {"search", "rag"} : \E stale \in BOOLEAN :
               SearchPageSubmit(t, c, m, stale)
    \/ \E q \in SearchQueries : \E stale \in BOOLEAN :
           SearchPageSemanticSearch(q, NoContextOption, stale)
    \/ \E k \in SearchKeys : \E r \in ResultSets : searchFetchSucceeds(k, r)
    \/ \E k \in SearchKeys : searchFetchFails(k)
    \/ SearchPageTryAgain

\* C12: when the fetch of a newly submitted query has been rejected, the
\* result list still displays the result set of the last successful search.
C12_RejectedSearchKeepsLastResults ==
    (/\ shownHook(sp) # "none"
     /\ hookError(shownHook(sp), sp)
     /\ ~ hookData(shownHook(sp), sp).defined)
        => displayedResults(sp) = sp.lastSuccess

C20_SearchOnlyOnNonEmptyText ==
    /\ sp.searches > 0 => (nonEmpty(trim(sp.typed)) /\ sp.searchQuery = trim(sp.typed))
    /\ sp.searchQuery = <<>> =>
           /\ \A h \in SearchHooks : ~ searchHookEnabled(h, sp)
           /\ \A k \in SearchKeys : ~ sp.entries[k].fetching
    /\ \A k \in SearchKeys : k[2] = <<>> => sp.entries[k] = NoEntry

\* C20 witness: " a" was submitted and the keyword search for "a" is
\* fetching.
C20_Witness ==
    /\ sp.typed = <<" ", "a">>
    /\ sp.searchQuery = <<"a">>
    /\ sp.searchMode = "search"
    /\ sp.entries[searchKey("search", sp)].fetching

FirstPages == {<<"A", "B", "C">>, <<"A", "B">>}
SecondPages == {<<"C", "D">>, <<"D">>}
Datasets == {<<p1>> : p1 \in FirstPages} \cup {<<p1, p2>> : p1 \in FirstPages, p2 \in SecondPages}

\* the cursor of page i; no cursor is the empty sequence
NoCursor == <<>>

\* POST /search/ answered from a dataset: the page the cursor names
searchResponse(dataset, cursor) ==
    LET i == IF cursor = NoCursor THEN 1 ELSE cursor[1] IN
    [defined |-> TRUE,
     results |-> dataset[i],
     hasMore |-> i < Len(dataset),
     nextCursor |-> IF i < Len(dataset) THEN <<i + 1>> ELSE NoCursor]

NoPage == [defined |-> FALSE, results |-> <<>>, hasMore |-> FALSE, nextCursor |-> NoCursor]

ResultsListInit ==
    [query |-> <<>>,
     folderId |-> Undefined,
     dataset |-> <<>>,
     data |-> NoPage,
     error |-> FALSE,
     fetching |-> FALSE,
     visibleResults |-> <<>>,
     cursors |-> <<>>,
     completed |-> 0]

\* queryFn: async ({ pageParam = undefined }) => ...: useQuery hands the
\* query function no pageParam, whatever getNextPageParam returns
pageParam(data) == NoCursor

\* enabled: !!query && query.length > 0
infiniteSearchEnabled(query) == nonEmpty(query) /\ Len(query) > 0

\* the sentinel of ResultsList is rendered: hasMore && !isLoading
loadMoreShown(l) ==
    /\ l.data.defined /\ l.data.hasMore
    /\ ~ (l.fetching /\ ~ l.data.defined)
    /\ Len(l.visibleResults) > 0

\* useInfiniteSearch(query, {folderId, limit}) is mounted with a ResultsList
\* and fetches
infiniteSearchMounts(query, folderId, dataset) ==
    /\ rl = ResultsListInit
    /\ infiniteSearchEnabled(query)
    /\ rl' = [rl EXCEPT !.query = query, !.folderId = folderId, !.dataset = dataset,
                        !.fetching = TRUE,
                        !.cursors = Append(@, pageParam(rl.data))]
    /\ UNCHANGED notResults

\* The sentinel scrolls into view: onLoadMore(), the fetch of the hook.
loadMoreIntersects ==
    /\ loadMoreShown(rl)
    /\ ~ rl.fetching
    /\ Len(rl.cursors) < MaxPageLoads
    /\ rl' = [rl EXCEPT !.fetching = TRUE, !.cursors = Append(@, pageParam(rl.data))]
    /\ UNCHANGED notResults

\* The fetch resolves: the response replaces data, and the effect of
\* ResultsList copies results into visibleResults.
infiniteFetchResolves ==
    /\ rl.fetching
    /\ LET response == searchResponse(rl.dataset, rl.cursors[Len(rl.cursors)]) IN
       rl' = [rl EXCEPT !.data = response, !.error = FALSE, !.fetching = FALSE,
                        !.visibleResults = response.results,
                        !.completed = @ + 1]
    /\ UNCHANGED notResults

\* The fetch is rejected: data stays.
infiniteFetchRejects ==
    /\ rl.fetching
    /\ rl' = [rl EXCEPT !.error = TRUE, !.fetching = FALSE]
    /\ UNCHANGED notResults

\* "Try again" of the error display, shown when no result is visible
infiniteRefetch ==
    /\ rl.error /\ Len(rl.visibleResults) = 0 /\ ~ rl.fetching
    /\ Len(rl.cursors) < MaxPageLoads
    /\ rl' = [rl EXCEPT !.fetching = TRUE, !.cursors = Append(@, pageParam(rl.data))]
    /\ UNCHANGED notResults

\* the list is left
resultsListUnmounts ==
    /\ rl # ResultsListInit
    /\ rl' = ResultsListInit
    /\ UNCHANGED notResults

NextResults ==
    \/ \E q \in SearchQueries : \E f \in {Undefined} \cup FolderIds : \E d \in Datasets :
           infiniteSearchMounts(q, f, d)
    \/ loadMoreIntersects
    \/ infiniteFetchResolves
    \/ infiniteFetchRejects
    \/ infiniteRefetch
    \/ resultsListUnmounts

\* C14: load more accumulates pages: once page 1 is shown and a load-more
\* fetch has completed, the list shows page 1 followed by the items of page 2
\* whose id is not already shown ([A,B,C] then [C,D] gives [A,B,C,D]).
C14_LoadMoreAccumulates ==
    (Len(rl.dataset) >= 2 /\ rl.completed >= 2 /\ ~ rl.error /\ ~ rl.fetching)
        => LET page1 == rl.dataset[1]
               page2 == rl.dataset[2]
               shown == {page1[i] : i \in 1..Len(page1)}
           IN  rl.visibleResults = page1 \o SelectSeq(page2, LAMBDA x : x \notin shown)

(***************************************************************************)
(* The axios instance: request and response interceptors                   *)
(***************************************************************************)
\* values of localStorage['authToken']; null is Undefined
AuthTokens == {"T1", "T2"}

\* the errors the axios instance can reject with for an outcome: the
\* AxiosError, with or without a code, and an error that carries no message
RawErrors(o) ==
    LET coded == {AxiosError(o, c) : c \in (IF o.kind = "http" THEN BOOLEAN ELSE {TRUE})}
    IN  coded \cup {[e EXCEPT !.message = <<"", 0>>] : e \in coded}

NoHeader == <<>>

\* the request interceptor: Authorization is set when a token is stored
requestInterceptor(token) ==
    IF truthy(token) THEN <<"Bearer", token>> ELSE NoHeader

\* mutant: every 4xx response clears the token
clearsAuthToken_AnyClientError(error) ==
    ResponseStatus(error) >= 400 /\ ResponseStatus(error) < 500

\* the response interceptor removes the token on 401 only
clearsAuthToken(error) == ResponseStatus(error) = 401

HttpInit ==
    [authToken |-> Undefined,
     inflight |-> {},
     issued |-> 0,
     settled |-> 0,
     lastOutcome |-> NoOutcome,
     lastRejection |-> NoError]

\* Code outside the adapter (sign-in) stores a token.
authTokenStored(token) ==
    /\ http.authToken # token
    /\ http' = [http EXCEPT !.authToken = token]
    /\ UNCHANGED notHttp

\* A method of ApiService issues a request through this.api.
apiRequest ==
    /\ http.issued < MaxRequests
    /\ http' = [http EXCEPT
                  !.issued = @ + 1,
                  !.inflight = @ \cup {[id |-> http.issued + 1,
                                        Authorization |-> requestInterceptor(http.authToken),
                                        tokenAtIssue |-> http.authToken]}]
    /\ UNCHANGED notHttp

\* A 2xx response: the response interceptor passes it through.
apiResponseFulfilled(r) ==
    /\ r \in http.inflight
    /\ http' = [http EXCEPT !.inflight = @ \ {r},
                            !.settled = @ + 1,
                            !.lastOutcome = [kind |-> "ok", status |-> 200],
                            !.lastRejection = NoError]
    /\ UNCHANGED notHttp

\* The call fails: the response interceptor's rejection handler.
apiResponseRejected(r, o, error) ==
    /\ r \in http.inflight
    /\ http' = [http EXCEPT !.inflight = @ \ {r},
                            !.settled = @ + 1,
                            !.lastOutcome = o,
                            !.lastRejection = NormalizeError(error),
                            !.authToken = IF clearsAuthToken(error) THEN Undefined ELSE @]
    /\ UNCHANGED notHttp

NextHttp ==
    \/ \E t \in AuthTokens : authTokenStored(t)
    \/ apiRequest
    \/ \E r \in http.inflight : apiResponseFulfilled(r)
    \/ \E r \in http.inflight : \E o \in Failures : \E e \in RawErrors(o) :
           apiResponseRejected(r, o, e)

\* C15: a request carries "Authorization: Bearer <token>" exactly when a
\* token was in local storage as it was issued; a 401 response removes the
\* stored token and a response of any other kind leaves it as it was.
C15_AuthTokenLifecycle ==
    /\ [](\A r \in http.inflight :
            /\ (r.Authorization # NoHeader) <=> (r.tokenAtIssue \in AuthTokens)
            /\ r.tokenAtIssue \in AuthTokens
                   => r.Authorization = <<"Bearer", r.tokenAtIssue>>)
    /\ [][http'.settled # http.settled =>
             IF http'.lastOutcome.kind = "http" /\ http'.lastOutcome.status = 401
             THEN http'.authToken = Undefined
             ELSE http'.authToken = http.authToken]_vars

\* C15 witness: with a token stored, a request went out with the header and
\* a 403 answer left the token in place.
C15_Witness ==
    /\ http.lastOutcome = [kind |-> "http", status |-> 403]
    /\ http.authToken \in AuthTokens
    /\ \E r \in http.inflight : r.Authorization = <<"Bearer", http.authToken>>

\* C16: every failed call rejects with {message, code, details} whose message
\* and code are non-empty; the message is "Authentication required" for 401,
\* "Access forbidden" for 403, "Resource not found" for 404, the server-error
\* text for every status >= 500, and otherwise the transport's own message.
C16_ErrorNormalizationTable ==
    (http.settled > 0 /\ http.lastOutcome.kind # "ok") =>
        LET e == http.lastRejection
            o == http.lastOutcome
            text == e.message[1]
        IN  /\ DOMAIN e = {"message", "code", "details"}
            /\ text # "" /\ e.code # <<>>
            /\ (o.kind = "http" /\ o.status = 401) => text = "Authentication required"
            /\ (o.kind = "http" /\ o.status = 403) => text = "Access forbidden"
            /\ (o.kind = "http" /\ o.status = 404) => text = "Resource not found"
            /\ (o.kind = "http" /\ o.status >= 500)
                   => text = "Server error. Please try again later."
            /\ (o.kind = "http" /\ o.status = 400)
                   => text \in {"Request failed with status code", "An unexpected error occurred"}
            /\ o.kind = "timeout"
                   => text \in {"timeout of 30000ms exceeded", "An unexpected error occurred"}
            /\ o.kind = "network"
                   => text \in {"Network Error", "An unexpected error occurred"}

\* C16 witness: a 403 answer was rejected as "Access forbidden".
C16_Witness ==
    /\ http.lastOutcome = [kind |-> "http", status |-> 403]
    /\ http.lastRejection.message[1] = "Access forbidden"
    /\ http.lastRejection.code = ERR_BAD_REQUEST

(***************************************************************************)
(* useRetryableQuery: retryRequest inside the query function, and the      *)
(* query's own retry predicate around it                                   *)
(***************************************************************************)
\* retry: (failureCount, error) => ... of useRetryableQuery
retryableRetry(failureCount, error, maxRetries) ==
    IF isClientErrorCode(error) THEN FALSE ELSE failureCount < maxRetries

\* retryDelay: Math.min(1000 * 2 ** attemptIndex, 30000)
retryableRetryDelay(attemptIndex) == Min(1000 * pow(2, attemptIndex), 30000)

RetryableIdle ==
    [pc |-> "idle", maxRetries |-> 0, failureCount |-> 0, attempt |-> 0,
     calls |-> 0, onlyServerErrors |-> TRUE, error |-> NoError, delays |-> <<>>]

\* what the retryer does when the query function (retryRequest) has thrown
queryFunctionThrew(q, error) ==
    IF retryableRetry(q.failureCount, error, q.maxRetries)
    THEN [q EXCEPT !.pc = "retryDelay",
                   !.delays = Append(@, retryableRetryDelay(q.failureCount)),
                   !.failureCount = @ + 1,
                   !.error = error]
    ELSE [q EXCEPT !.pc = "error", !.error = error]

\* The query is fetched: the retryer runs the query function, which enters
\* the loop of retryRequest(queryFn, maxRetries).
useRetryableQueryFetch(maxRetries) ==
    /\ rq.pc = "idle"
    /\ rq' = [rq EXCEPT !.maxRetries = maxRetries, !.attempt = 1, !.pc = "call"]
    /\ UNCHANGED notRetryable

\* `await requestFn()` inside retryRequest settles.
retryableRequestSettles(o, error) ==
    /\ rq.pc = "call"
    /\ LET called == [rq EXCEPT !.calls = @ + 1,
                                !.onlyServerErrors =
                                    @ /\ o.kind = "http" /\ o.status >= 500]
       IN  IF o.kind = "ok"
           THEN rq' = [called EXCEPT !.pc = "success"]
           ELSE IF isClientErrorCode(error)
           THEN rq' = queryFunctionThrew(called, error)
           ELSE IF rq.attempt < rq.maxRetries
           THEN rq' = [called EXCEPT !.pc = "wait", !.error = error]
           ELSE IF loopContinues(rq.attempt + 1, rq.maxRetries)
           THEN rq' = [called EXCEPT !.attempt = @ + 1, !.error = error]
           ELSE rq' = queryFunctionThrew([called EXCEPT !.attempt = @ + 1], error)
    /\ UNCHANGED notRetryable

\* The backoff timer of retryRequest fires.
retryableBackoffElapsed ==
    /\ rq.pc = "wait"
    /\ rq' = IF loopContinues(rq.attempt + 1, rq.maxRetries)
             THEN [rq EXCEPT !.attempt = @ + 1, !.pc = "call"]
             ELSE queryFunctionThrew([rq EXCEPT !.attempt = @ + 1], rq.error)
    /\ UNCHANGED notRetryable

\* The retryDelay of the query elapses: the query function runs again.
retryableRetryElapsed ==
    /\ rq.pc = "retryDelay"
    /\ rq' = [rq EXCEPT !.attempt = 1, !.pc = "call"]
    /\ UNCHANGED notRetryable

\* The settled query is dropped and can be fetched anew.
retryableQueryReset ==
    /\ rq.pc \in {"success", "error"}
    /\ rq' = RetryableIdle
    /\ UNCHANGED notRetryable

NextRetryable ==
    \/ \E m \in 1..MaxQueryRetries : useRetryableQueryFetch(m)
    \/ \E o \in Outcomes : \E e \in (IF o.kind = "ok" THEN {NoError} ELSE ApiRejections(o)) :
           retryableRequestSettles(o, e)
    \/ retryableBackoffElapsed
    \/ retryableRetryElapsed
    \/ retryableQueryReset

\* C17: in a useRetryableQuery fetch whose attempts all fail with a 5xx
\* error, the underlying queryFn is invoked at most maxRetries times in all.
C17_RetryableQueryCallsBounded ==
    rq.onlyServerErrors => rq.calls <= rq.maxRetries

(***************************************************************************)
(* useConversationSession                                                  *)
(***************************************************************************)
SessionIds == {"s1", "s2"}
MessageRoles == {"user", "assistant"}
MessageContents == {"hello", "bye"}

\* queryClient.getQueryData(key) is undefined until data is set
NoHistory == [defined |-> FALSE, history |-> <<>>]

ConversationInit ==
    [data |-> [s \in SessionIds |-> NoHistory],
     now |-> 0,
     ops |-> 0,
     last |-> [op |-> "none", sessionId |-> Undefined]]

\* (queryClient.getQueryData(["conversationHistory", sessionId]) as any[]) || []
getHistory(data, sessionId) ==
    IF data[sessionId].defined THEN data[sessionId].history ELSE <<>>

\* mutant: the new history holds the new message only
addMessage_DropsHistory(data, sessionId, message, now) ==
    [data EXCEPT ![sessionId] =
        [defined |-> TRUE,
         history |-> <<[role |-> message.role, content |-> message.content,
                        timestamp |-> now]>>]]

\* addMessage: setQueryData(key, [...history, {...message, timestamp}])
addMessage(data, sessionId, message, now) ==
    [data EXCEPT ![sessionId] =
        [defined |-> TRUE,
         history |-> getHistory(data, sessionId)
                        \o <<[role |-> message.role, content |-> message.content,
                              timestamp |-> now]>>]]

\* clearHistory: setQueryData(key, [])
clearHistory(data, sessionId) ==
    [data EXCEPT ![sessionId] = [defined |-> TRUE, history |-> <<>>]]

\* A component holding useConversationSession(sessionId) calls addMessage;
\* the clock may have advanced since the last call.
sessionAddMessage(sessionId, message, tick) ==
    /\ conv.ops < MaxHistoryOps
    /\ conv' = [data |-> addMessage(conv.data, sessionId, message, conv.now + tick),
                now |-> conv.now + tick,
                ops |-> conv.ops + 1,
                last |-> [op |-> "addMessage", sessionId |-> sessionId,
                          role |-> message.role, content |-> message.content]]
    /\ UNCHANGED notConversation

\* A component holding useConversationSession(sessionId) calls clearHistory.
sessionClearHistory(sessionId) ==
    /\ conv.ops < MaxHistoryOps
    /\ conv' = [conv EXCEPT !.data = clearHistory(conv.data, sessionId),
                            !.ops = @ + 1,
                            !.last = [op |-> "clearHistory", sessionId |-> sessionId]]
    /\ UNCHANGED notConversation

\* The entry has no observer: the cache collects it when its cache time is
\* over.
conversationEntryCollected(sessionId) ==
    /\ conv.data[sessionId].defined
    /\ conv' = [conv EXCEPT !.data[sessionId] = NoHistory,
                            !.last = [op |-> "collected", sessionId |-> sessionId]]
    /\ UNCHANGED notConversation

NextConversation ==
    \/ \E s \in SessionIds : \E m \in [role : MessageRoles, content : MessageContents] :
           \E tick \in {0, 1} : sessionAddMessage(s, m, tick)
    \/ \E s \in SessionIds : sessionClearHistory(s)
    \/ \E s \in SessionIds : conversationEntryCollected(s)

\* C18: addMessage extends the history of its session by exactly one entry
\* at the end and leaves the earlier entries and every other session's
\* history unchanged; clearHistory empties the history of its session and
\* leaves the other sessions unchanged.
C18_SessionHistoryAppendOnly ==
    [][conv'.ops # conv.ops =>
         LET s == conv'.last.sessionId
             before == getHistory(conv.data, s)
             after == getHistory(conv'.data, s)
         IN  /\ \A t \in SessionIds \ {s} : conv'.data[t] = conv.data[t]
             /\ conv'.last.op = "addMessage" =>
                   /\ Len(after) = Len(before) + 1
                   /\ SubSeq(after, 1, Len(before)) = before
                   /\ after[Len(after)].role = conv'.last.role
                   /\ after[Len(after)].content = conv'.last.content
             /\ conv'.last.op = "clearHistory" => after = <<>>]_vars

\* C18 witness: a second message was appended to session s1 while session
\* s2 holds a history of its own.
C18_Witness ==
    /\ conv.last.op = "addMessage" /\ conv.last.sessionId = "s1"
    /\ Len(getHistory(conv.data, "s1")) = 2
    /\ Len(getHistory(conv.data, "s2")) = 1

(***************************************************************************)
(* SnippetPreview                                                          *)
(***************************************************************************)
\* the snippets arrays the backend answers with; a snippet is its chunkIndex
SnippetLists == {[i \in 1..n |-> i - 1] : n \in 0..MaxSnippets}

\* texts of the in-document search box
SnippetQueries == {<<>>, <<"a", "b">>, <<"a", "b", "c">>, <<"a", "b", "c", "d">>}

ViewModes == {"relevant", "all", "search"}

\* queryKey of useSnippets, useDocumentSnippets and useSnippetSearch for the
\* document of the preview
snippetKeyOf(mode, snippetSearchQuery) ==
    CASE mode = "relevant" -> <<"snippets">>
      [] mode = "all" -> <<"documentSnippets">>
      [] OTHER -> <<"snippetSearch", snippetSearchQuery>>

SnippetKeys == {snippetKeyOf(m, q) : m \in ViewModes, q \in SnippetQueries}

\* useState initial values; the modal is closed and no query has run
SnippetPreviewInit ==
    [isOpen |-> FALSE,
     activeSnippetIndex |-> 0,
     snippetSearchQuery |-> <<>>,
     viewMode |-> "relevant",
     selectedChunkIndex |-> <<>>,
     entries |-> [k \in SnippetKeys |-> NoEntry],
     fetches |-> 0]

\* the key the hook of a view mode observes now
snippetKey(s, mode) == snippetKeyOf(mode, s.snippetSearchQuery)

\* enabled of the hook of a view mode (result is set while the modal is open)
snippetEnabled(s, mode) ==
    /\ s.isOpen
    /\ s.viewMode = mode
    /\ mode = "search" => Len(s.snippetSearchQuery) > 2

\* getCurrentSnippets(): data?.snippets || [] of the view mode's hook
getCurrentSnippets(s) ==
    LET e == s.entries[snippetKey(s, s.viewMode)]
    IN  IF e.data.defined THEN e.data.results ELSE <<>>

\* isSnippetsLoading || isAllSnippetsLoading || isSearchSnippetsLoading
\* (the document and the chunk context are taken as loaded)
snippetsLoading(s) ==
    \E m \in ViewModes :
        LET e == s.entries[snippetKey(s, m)] IN e.fetching /\ ~ e.data.defined

\* hasSnippetsError
hasSnippetsError(s) == \E m \in ViewModes : s.entries[snippetKey(s, m)].error

\* the branch of the render that holds the tabs, the search box and the
\* snippets
controlsShown(s) == s.isOpen /\ ~ snippetsLoading(s) /\ ~ hasSnippetsError(s)

\* {currentSnippets.length > 0 ? ... currentSnippets[activeSnippetIndex] ...}
activeSnippetRendered(s) == controlsShown(s) /\ Len(getCurrentSnippets(s)) > 0

\* whether a handler makes the hook of the current view mode fetch: the
\* observer became enabled or changed its key, and the query holds no data
snippetFetchTriggered(old, new) ==
    LET k == snippetKey(new, new.viewMode)
    IN  /\ snippetEnabled(new, new.viewMode)
        /\ ~ snippetEnabled(old, new.viewMode) \/ k # snippetKey(old, old.viewMode)
        /\ ~ new.entries[k].fetching
        /\ ~ new.entries[k].data.defined

\* A render after a handler, with the fetch it triggers.
snippetRendered(old, new) ==
    IF snippetFetchTriggered(old, new)
    THEN [new EXCEPT !.entries[snippetKey(new, new.viewMode)] = fetchStarted(@),
                     !.fetches = @ + 1]
    ELSE new

\* A handler runs and the component renders; the bound caps the fetches.
snippetHandled(new) ==
    /\ snippetFetchTriggered(sn, new) => sn.fetches < MaxSnippetFetches
    /\ sn' = snippetRendered(sn, new)
    /\ sn' # sn
    /\ UNCHANGED notSnippets

\* handleResultClick opens the modal on a result; the effect on [result]
\* resets the state.  The queries of another document hold no data.
snippetPreviewOpens(sameDocument) ==
    /\ ~ sn.isOpen
    /\ snippetHandled([sn EXCEPT
          !.isOpen = TRUE,
          !.activeSnippetIndex = 0,
          !.snippetSearchQuery = <<>>,
          !.viewMode = "relevant",
          !.selectedChunkIndex = <<>>,
          !.entries = IF sameDocument THEN @ ELSE [k \in SnippetKeys |-> NoEntry]])

\* handleClosePreview / Escape: the component stays mounted and returns null
snippetPreviewCloses ==
    /\ sn.isOpen
    /\ snippetHandled([sn EXCEPT !.isOpen = FALSE])

\* handleViewModeChange(mode)
handleViewModeChange(mode) ==
    /\ controlsShown(sn)
    /\ snippetHandled([sn EXCEPT !.viewMode = mode,
                                 !.activeSnippetIndex = 0,
                                 !.selectedChunkIndex = <<>>])

\* handleSnippetSearch(query); the search box is rendered in search mode
handleSnippetSearch(query) ==
    /\ controlsShown(sn)
    /\ sn.viewMode = "search"
    /\ snippetHandled([sn EXCEPT !.snippetSearchQuery = query,
                                 !.viewMode = IF Len(query) > 2 THEN "search" ELSE @])

\* onClick of a snippet tab, rendered while currentSnippets.length > 1
snippetTabClick(index) ==
    /\ activeSnippetRendered(sn)
    /\ Len(getCurrentSnippets(sn)) > 1
    /\ index < Len(getCurrentSnippets(sn))
    /\ snippetHandled([sn EXCEPT
          !.activeSnippetIndex = index,
          !.selectedChunkIndex = IF sn.viewMode = "all"
                                 THEN <<getCurrentSnippets(sn)[index + 1]>> ELSE @])

\* refetchSearchSnippets(): the Refresh button under the active snippet
refetchSearchSnippets ==
    /\ activeSnippetRendered(sn)
    /\ sn.viewMode = "search"
    /\ sn.fetches < MaxSnippetFetches
    /\ ~ sn.entries[snippetKey(sn, "search")].fetching
    /\ sn' = [sn EXCEPT !.entries[snippetKey(sn, "search")] = fetchStarted(@),
                        !.fetches = @ + 1]
    /\ UNCHANGED notSnippets

\* onRetry of the snippets' ErrorDisplay: the refetch of the view mode
snippetErrorRetry ==
    /\ sn.isOpen /\ ~ snippetsLoading(sn) /\ hasSnippetsError(sn)
    /\ sn.fetches < MaxSnippetFetches
    /\ ~ sn.entries[snippetKey(sn, sn.viewMode)].fetching
    /\ sn' = [sn EXCEPT !.entries[snippetKey(sn, sn.viewMode)] = fetchStarted(@),
                        !.fetches = @ + 1]
    /\ UNCHANGED notSnippets

\* A snippet query resolves.
snippetFetchSucceeds(k, snippets) ==
    /\ sn.entries[k].fetching
    /\ sn' = [sn EXCEPT !.entries[k] = fetchSucceeded(@, snippets)]
    /\ UNCHANGED notSnippets

\* A snippet query is rejected.
snippetFetchFails(k) ==
    /\ sn.entries[k].fetching
    /\ sn' = [sn EXCEPT !.entries[k] = fetchFailed(@)]
    /\ UNCHANGED notSnippets

NextSnippets ==
    \/ \E same \in BOOLEAN : snippetPreviewOpens(same)
    \/ snippetPreviewCloses
    \/ \E m \in ViewModes : handleViewModeChange(m)
    \/ \E q \in SnippetQueries : handleSnippetSearch(q)
    \/ \E i \in 0..(MaxSnippets - 1) : snippetTabClick(i)
    \/ refetchSearchSnippets
    \/ snippetErrorRetry
    \/ \E k \in SnippetKeys : \E l \in SnippetLists : snippetFetchSucceeds(k, l)
    \/ \E k \in SnippetKeys : snippetFetchFails(k)

\* C27: whenever the active snippet is rendered, activeSnippetIndex is an
\* index of the current snippet list.
C27_ActiveSnippetInRange ==
    activeSnippetRendered(sn) => sn.activeSnippetIndex < Len(getCurrentSnippets(sn))

(***************************************************************************)
(* Sidebar.buildFolderTree                                                 *)
(***************************************************************************)
\* ids of the folders of an answer, and what parentId can hold: nothing, the
\* empty string, a folder of the list or a folder that is not in the list
TreeFolderIds == {"F1", "F2", "F3"}
ParentIds == {Undefined, "", "F9"} \cup TreeFolderIds

\* the ids of a folder list
folderIdsOf(folders) == {folders[i].id : i \in 1..Len(folders)}

\* the folder lists of an answer: distinct ids, any parentId
FolderLists ==
    {l \in UNION {[1..n -> [id : TreeFolderIds, parentId : ParentIds]] : n \in 0..MaxFolders} :
        Cardinality(folderIdsOf(l)) = Len(l)}

\* folder.parentId && folderMap.has(folder.parentId)
hasParentInList(folders, folder) ==
    /\ folder.parentId \notin {Undefined, ""}
    /\ folder.parentId \in folderIdsOf(folders)

\* buildFolderTree(folders): rootFolders, and the children array of every
\* node of folderMap, as ids in the order of the pushes
buildFolderTree(folders) ==
    LET idsOf(s) == [i \in 1..Len(s) |-> s[i].id]
    IN  [rootFolders |->
             idsOf(SelectSeq(folders, LAMBDA f : ~ hasParentInList(folders, f))),
         children |->
             [id \in TreeFolderIds |->
                 idsOf(SelectSeq(folders,
                     LAMBDA f : hasParentInList(folders, f) /\ f.parentId = id))]]

FolderTreeInit ==
    [folders |-> <<>>, tree |-> buildFolderTree(<<>>), built |-> FALSE]

\* The effect on [foldersData]: the folder list arrived and the tree is built.
foldersDataArrives(folders) ==
    /\ ft' = [folders |-> folders, tree |-> buildFolderTree(folders), built |-> TRUE]
    /\ UNCHANGED notFolderTree

NextFolderTree == \E folders \in FolderLists : foldersDataArrives(folders)

\* the ids of a sequence of ids
Range(s) == {s[i] : i \in 1..Len(s)}

\* how often an id occurs in a sequence of ids
occurrences(s, id) == Cardinality({i \in 1..Len(s) : s[i] = id})

\* the nodes met walking down from the roots through children, n levels deep
RECURSIVE reachableFrom(_, _, _)
reachableFrom(tree, nodes, n) ==
    IF n = 0 THEN nodes
    ELSE reachableFrom(tree,
                       nodes \cup UNION {Range(tree.children[id]) : id \in nodes},
                       n - 1)

\* C28: every folder of the list is placed exactly once, under its parent
\* when parentId names a folder of the list and among the roots otherwise,
\* and every folder of the list is reachable from the roots.
C28_EveryFolderInForest ==
    ft.built =>
        /\ \A i \in 1..Len(ft.folders) :
              LET f == ft.folders[i]
                  under(p) == occurrences(ft.tree.children[p], f.id)
              IN  IF f.parentId \in folderIdsOf(ft.folders)
                  THEN /\ under(f.parentId) = 1
                       /\ occurrences(ft.tree.rootFolders, f.id) = 0
                       /\ \A p \in TreeFolderIds \ {f.parentId} : under(p) = 0
                  ELSE /\ occurrences(ft.tree.rootFolders, f.id) = 1
                       /\ \A p \in TreeFolderIds : under(p) = 0
        /\ folderIdsOf(ft.folders)
              \subseteq reachableFrom(ft.tree, Range(ft.tree.rootFolders), MaxFolders)

(***************************************************************************)
(* SearchBar: the debounce of the query and the suggestions fetch          *)
(***************************************************************************)
\* The timer set by the debounce effect, with the values its callback
\* closes over.
debounceTimer(query, isComposing) ==
    [armed |-> TRUE, query |-> query, isComposing |-> isComposing]

\* useState initial values, and the timer the effect sets on mount
SearchBarInit ==
    [query |-> <<>>,
     debouncedQuery |-> <<>>,
     showAutocomplete |-> FALSE,
     isComposing |-> FALSE,
     timer |-> debounceTimer(<<>>, FALSE)]

\* enabled of the suggestions query of the first SearchBar:
\* !!debouncedQuery && debouncedQuery.length > 1
suggestionsEnabled(debouncedQuery) ==
    nonEmpty(debouncedQuery) /\ Len(debouncedQuery) > 1

\* enabled of useAutocomplete(query, limit, queryOptions)
useAutocompleteEnabled(query, limit, queryOptions) ==
    mergeOptions([enabled |-> nonEmpty(query) /\ Len(query) > 1], queryOptions).enabled

\* The second SearchBar calls useAutocomplete(debouncedQuery, {enabled: ...}):
\* its options object is the limit argument and queryOptions is undefined.
autocompleteEnabled(debouncedQuery) ==
    useAutocompleteEnabled(
        debouncedQuery,
        [enabled |-> nonEmpty(debouncedQuery) /\ Len(debouncedQuery) > 2],
        <<>>)

\* A render after a handler: the effect on [query, isComposing] clears the
\* timer and sets a new one when one of the two changed.
debounceEffect(old, new) ==
    IF new.query # old.query \/ new.isComposing # old.isComposing
    THEN [new EXCEPT !.timer = debounceTimer(new.query, new.isComposing)]
    ELSE new

\* mutant: the callback ignores isComposing
debounceCallback_IgnoresComposing(d) ==
    [d EXCEPT !.debouncedQuery = d.timer.query, !.timer.armed = FALSE]

\* the callback of setTimeout: if (!isComposing) setDebouncedQuery(query)
debounceCallback(d) ==
    [d EXCEPT !.debouncedQuery = IF ~ d.timer.isComposing THEN d.timer.query ELSE @,
              !.timer.armed = FALSE]

\* handleInputChange
handleInputChange(value) ==
    /\ db' = debounceEffect(db, [db EXCEPT !.query = value,
                                           !.showAutocomplete = Len(value) > 1])
    /\ db' # db
    /\ UNCHANGED notDebounce

\* onCompositionStart / onCompositionEnd
searchBarComposition(isComposing) ==
    /\ db.isComposing # isComposing
    /\ db' = debounceEffect(db, [db EXCEPT !.isComposing = isComposing])
    /\ UNCHANGED notDebounce

\* handleAutocompleteSelect(suggestion), from the list shown under the input
handleAutocompleteSelect(suggestion) ==
    /\ db.showAutocomplete
    /\ suggestionsEnabled(db.debouncedQuery)
    /\ db' = debounceEffect(db, [db EXCEPT !.query = suggestion,
                                           !.showAutocomplete = FALSE])
    /\ UNCHANGED notDebounce

\* handleClear; its button is rendered while query is not empty
handleClear ==
    /\ nonEmpty(db.query)
    /\ db' = debounceEffect(db, [db EXCEPT !.query = <<>>,
                                           !.debouncedQuery = <<>>,
                                           !.showAutocomplete = FALSE])
    /\ UNCHANGED notDebounce

\* 300 ms have passed since the timer was set.
debounceTimerFires ==
    /\ db.timer.armed
    /\ db' = debounceCallback(db)
    /\ UNCHANGED notDebounce

NextDebounce ==
    \/ \E value \in Texts : handleInputChange(value)
    \/ \E c \in BOOLEAN : searchBarComposition(c)
    \/ \E s \in Texts : handleAutocompleteSelect(s)
    \/ handleClear
    \/ debounceTimerFires

\* C29: debouncedQuery changes only to the value of query when the timer
\* fires while isComposing is false, or to the empty text on clear; once
\* query stays at a value with composition ended, debouncedQuery ends up
\* equal to it; and the suggestions fetch of either SearchBar is enabled
\* only for a debouncedQuery longer than one character.
C29_DebouncedQueryFollowsQuery ==
    /\ [][db'.debouncedQuery # db.debouncedQuery =>
            \/ /\ db.timer.armed /\ ~ db'.timer.armed
               /\ ~ db.isComposing
               /\ db'.query = db.query
               /\ db'.debouncedQuery = db.query
            \/ /\ nonEmpty(db.query)
               /\ db'.query = <<>> /\ db'.debouncedQuery = <<>>]_vars
    /\ \A q \in Texts :
          <>[](db.query = q /\ ~ db.isComposing) => <>[](db.debouncedQuery = q)
    /\ [](/\ suggestionsEnabled(db.debouncedQuery) => Len(db.debouncedQuery) > 1
          /\ autocompleteEnabled(db.debouncedQuery) => Len(db.debouncedQuery) > 1)

\* C29 witness: the user composed "a", ended the composition, the timer
\* fired and debouncedQuery follows query at a text too short for
\* suggestions.
C29_Witness ==
    /\ db.query = <<"a">>
    /\ db.debouncedQuery = <<"a">>
    /\ ~ db.isComposing
    /\ ~ db.timer.armed
    /\ ~ suggestionsEnabled(db.debouncedQuery)

(***************************************************************************)
(* Specification of the transport adapter and the retry policies           *)
(***************************************************************************)
Init ==
    /\ rr = RetryIdle
    /\ qf = FetchIdle
    /\ app = AppInit
    /\ chat = ChatInit(NoContext)
    /\ sb = SidebarInit
    /\ cache = CacheInit
    /\ qc = {}
    /\ sp = SearchPageInit
    /\ rl = ResultsListInit
    /\ http = HttpInit
    /\ rq = RetryableIdle
    /\ conv = ConversationInit
    /\ sn = SnippetPreviewInit
    /\ ft = FolderTreeInit
    /\ db = SearchBarInit

NextRetry ==
    \/ \E m \in 0..MaxRetriesBound : retryRequest(m)
    \/ \E o \in Outcomes : \E e \in (IF o.kind = "ok" THEN {NoError} ELSE ApiRejections(o)) :
           requestFnSettles(o, e)
    \/ backoffElapsed

SpecRetry == Init /\ [][NextRetry]_vars

NextQuery ==
    \/ \E k \in {"query", "mutation"} : queryClientExecute(k)
    \/ \E o \in Outcomes : \E e \in (IF o.kind = "ok" THEN {NoError} ELSE ApiRejections(o)) :
           queryFnSettles(o, e)

SpecQuery == Init /\ [][NextQuery]_vars

(***************************************************************************)
(* Claims about the retry policies                                         *)
(***************************************************************************)
\* C1: a query or mutation whose first failure is an HTTP 4xx response is
\* never retried by the QueryClient: the request function has been called
\* exactly once and the fetch has ended in error.
C1_ClientErrorNotRetriedByQueryClient ==
    (qf.calls >= 1 /\ IsClientFailure(qf.first))
        => (qf.calls = 1 /\ qf.pc = "error")

\* C2: retryRequest with maxRetries >= 1 whose request function fails with
\* an HTTP 4xx response calls it exactly once, rethrows, and never waits.
C2_ClientErrorNotRetriedByRetryRequest ==
    (rr.calls >= 1 /\ IsClientFailure(rr.first) /\ rr.maxRetries >= 1)
        => (rr.calls = 1 /\ rr.pc = "thrown" /\ rr.waits = <<>>)

\* C4: retryRequest with maxRetries >= 1 never calls the request function
\* more than maxRetries times; when every attempt failed with a 5xx, timeout
\* or network error it has called it exactly maxRetries times and throws the
\* last error; when attempt k succeeds it returns after exactly k calls.
C4_RetriesUpToMaximum ==
    /\ rr.maxRetries >= 1 => rr.calls <= rr.maxRetries
    /\ (rr.pc = "thrown" /\ rr.maxRetries >= 1 /\ rr.onlyRetryable)
           => (rr.calls = rr.maxRetries /\ rr.lastError \in ApiRejections(rr.last))
    /\ rr.pc = "returned"
           => (rr.last.kind = "ok" /\ rr.calls = rr.attempt /\ rr.calls <= rr.maxRetries)
    /\ rr.pc \in {"returned", "thrown"} => ~ ENABLED requestFnSettles(rr.last, rr.lastError)

\* C4 witness: three 5xx/network failures exhausted maxRetries = 3.
C4_Witness ==
    /\ rr.pc = "thrown"
    /\ rr.maxRetries = 3
    /\ rr.calls = 3
    /\ rr.onlyRetryable

\* C5: the n-th backoff wait of retryRequest is min(2^n, 30) seconds.
C5_BackoffCappedAt30s ==
    \A n \in 1..Len(rr.waits) : rr.waits[n] = Min(pow(2, n), 30) * 1000

SpecApp == Init /\ [][NextApp]_vars

SpecChat == Init /\ [][NextChat]_vars

SpecFolders == Init /\ [][NextFolders]_vars

SpecIndexing == Init /\ [][NextIndexing]_vars

SpecSidebar == Init /\ [][NextSidebar]_vars

SpecKeys == Init /\ [][NextKeys]_vars

SpecSearch == Init /\ [][NextSearch]_vars

SpecResults == Init /\ [][NextResults]_vars

SpecHttp == Init /\ [][NextHttp]_vars

SpecRetryable == Init /\ [][NextRetryable]_vars

SpecConversation == Init /\ [][NextConversation]_vars

SpecSnippets == Init /\ [][NextSnippets]_vars

SpecFolderTree == Init /\ [][NextFolderTree]_vars

\* The debounce under the one fairness the browser gives: a timer that is
\* set and not cleared fires.
SpecDebounce == Init /\ [][NextDebounce]_vars /\ WF_vars(debounceTimerFires)

\* The contents of the user messages of a message list, in order
userContents(messages) ==
    LET users == SelectSeq(messages, LAMBDA m : m.type = "user")
    IN  [i \in 1..Len(users) |-> users[i].content]

\* A step of handleRetryLastMessage that re-sends the question: a request
\* is started and the list was cut before the send appended its two messages.
RetryResends ==
    /\ chat'.now = chat.now + 1
    /\ Len(chat'.messages) # Len(chat.messages) + 2

loadingIndexes(messages) == {i \in 1..Len(messages) : messages[i].isLoading}

\* C23: at most one message is loading, the loading message is the
\* placeholder of a request that is still pending, and a completion changes
\* no message other than the placeholder of the request that completed.
C23_SinglePlaceholder ==
    /\ [](/\ Cardinality(loadingIndexes(chat.messages)) <= 1
          /\ \A i \in loadingIndexes(chat.messages) :
                \E p \in chat.pending : chat.messages[i].id = <<"assistant", p.req>>)
    /\ [][\A p \in chat.pending :
            (chat'.pending = chat.pending \ {p} /\ Len(chat'.messages) = Len(chat.messages))
               => \A i \in 1..Len(chat.messages) :
                     chat'.messages[i] # chat.messages[i]
                        => chat.messages[i].id = <<"assistant", p.req>>]_vars

\* C23 witness: the second request's placeholder is loading next to the
\* settled reply of the first.
C23_Witness ==
    /\ Len(chat.messages) = 4
    /\ chat.messages[2].content = <<"answer", 1>>
    /\ chat.messages[4].isLoading
    /\ \E p \in chat.pending : p.req = 2

\* C24: once every backend call has settled, every user message of the list
\* is followed in it by a non-loading assistant message (the finite-run form
\* of "every accepted user message is eventually answered").
C24_EveryQuestionAnswered ==
    chat.pending = {} =>
        \A i \in 1..Len(chat.messages) :
            chat.messages[i].type = "user" =>
                \E j \in (i + 1)..Len(chat.messages) :
                    /\ chat.messages[j].type = "assistant"
                    /\ ~ chat.messages[j].isLoading

\* the hook whose error message the box displays:
\* (searchError || semanticSearchError)?.message
bannerHook(s) == IF hookError("search", s) THEN "search" ELSE "semanticSearch"

\* C22: a fetch started from the error box ("Try again": no new search was
\* submitted) is the fetch of the query whose error the box displays.
C22_TryAgainRefetchesShownError ==
    [][sp'.searches = sp.searches =>
          \A k \in SearchKeys :
              (~ sp.entries[k].fetching /\ sp'.entries[k].fetching)
                  => (errorShown(sp) /\ k = searchKey(bannerHook(sp), sp))]_vars

\* C25: every document covered by an indexing mutation that has started and
\* not settled is in indexingDocuments.
C25_PendingDocumentsShownIndexing ==
    \A m \in sb.mutations : m.documentIds \subseteq sb.indexingDocuments

\* C30: when no indexing mutation is pending and no success timer is
\* outstanding, indexingDocuments and indexedDocuments are empty.
C30_IndicatorsDrain ==
    (sb.mutations = {} /\ sb.timers = {})
        => (sb.indexingDocuments = {} /\ sb.indexedDocuments = {})

\* C30 witness: two mutations were started, an odd number of them succeeded,
\* all have settled and every timer has fired.
C30_Witness ==
    /\ sb.started = 2
    /\ sb.succeeded
    /\ sb.mutations = {}
    /\ sb.timers = {}
    /\ sb.indexedDocuments = {}

\* C26: a folder that is shown loading has a document load in flight: once
\* its load has settled, resolved or rejected, isLoading is false.
C26_LoadAlwaysEndsLoading ==
    \A f \in FolderIds :
        sb.folderTree[f].isLoading => \E l \in sb.loads : l.folderId = f

Next ==
    \/ NextRetry \/ NextQuery \/ NextApp \/ NextChat \/ NextSidebar
    \/ NextKeys \/ NextSearch \/ NextResults \/ NextHttp \/ NextRetryable
    \/ NextConversation \/ NextSnippets \/ NextFolderTree
    \/ NextDebounce

Spec == Init /\ [][Next]_vars

====
